---- MODULE Spec2Model ----
(***************************************************************************)
(* Model of the Universal-ETL worker: ParserEngine (format detection and   *)
(* the per-format extractors), InsightEngine, and the run_etl_job batch    *)
(* orchestrator with its Celery revoke-based cancellation.                 *)
(*                                                                         *)
(* Python values are modelled as tagged records [t, v]:                    *)
(*   t = "null" (None), "num", "str", "arr" (list), "obj" (dict).          *)
(* Numbers are fixed-point with two decimals: JNum(v) stands for v/Scale.  *)
(* A dict is a function from its keys to values, so a missing key is a key *)
(* outside DOMAIN and d["k"] on it is a KeyError.                          *)
(***************************************************************************)
EXTENDS Integers, Sequences, FiniteSets, TLC

\* ------------------------------------------------------------------------
\* Python / JSON values
\* ------------------------------------------------------------------------
Scale == 100

JNull == [t |-> "null", v |-> 0]
JNum(n) == [t |-> "num", v |-> n]
Num(n) == JNum(n * Scale)
JStr(s) == [t |-> "str", v |-> s]
JArr(q) == [t |-> "arr", v |-> q]
JObj(f) == [t |-> "obj", v |-> f]
EmptyObj == JObj(<<>>)
EmptyArr == JArr(<<>>)

IsDict(j) == j.t = "obj"
IsList(j) == j.t = "arr"
IsStr(j) == j.t = "str"
IsNone(j) == j.t = "null"

\* Python truthiness (bool(x)).
Truthy(j) ==
    CASE j.t = "null" -> FALSE
      [] j.t = "num" -> j.v # 0
      [] j.t = "str" -> j.v # ""
      [] j.t = "arr" -> Len(j.v) > 0
      [] j.t = "obj" -> DOMAIN j.v # {}

HasKey(d, k) == k \in DOMAIN d.v
\* dict.get(k, default); only called on dicts.
GetD(d, k, dflt) == IF HasKey(d, k) THEN d.v[k] ELSE dflt
\* dict.get(k)
Get(d, k) == GetD(d, k, JNull)
\* x or y
Or(x, y) == IF Truthy(x) THEN x ELSE y

\* ------------------------------------------------------------------------
\* Texts.  A Python str is JStr(name); json.loads is a table from the texts
\* of the vocabulary to the value they encode.  Every other text is not
\* JSON.
\* ------------------------------------------------------------------------
\* str.lower() on the keys and texts of the vocabulary.
Lower(s) ==
    CASE s = "xmlJsonResponse" -> "xmljsonresponse"
      [] s = "cibilData" -> "cibildata"
      [] s = "GetCustomerAssetsResponse" -> "getcustomerassetsresponse"
      [] s = "reportData" -> "reportdata"
      [] s = "reportSummary" -> "reportsummary"
      [] s = "creditAnalysis" -> "creditanalysis"
      [] s = "personalLoans" -> "personalloans"
      [] OTHER -> s

\* ------------------------------------------------------------------------
\* Documents of the four known formats and of an unknown one
\* ------------------------------------------------------------------------
ExperianLoan ==
    JObj("accountType" :> JStr("Housing Loan") @@ "subscriberName" :> JStr("HDFC")
         @@ "accountNumber" :> JStr("A1") @@ "accountStatus" :> JStr("Active")
         @@ "scheduledMonthlyPaymentAmount" :> Num(1000))

ExperianDoc ==
    JObj("xmlJsonResponse" :> JObj(
        "currentApplication" :> JObj("currentApplicationDetails" :> JObj(
            "currentApplicantdetails" :>
                JObj("incomeTaxPan" :> JStr("PAN1") @@ "mobilePhoneNumber" :> JStr("M1"))
            @@ "currentApplicantAddressDetails" :> JObj("pinCode" :> JStr("110001"))))
        @@ "score" :> JObj("bureauScore" :> Num(760))
        @@ "caisAccount" :> JObj("caisAccountDetails" :> JArr(<<ExperianLoan>>))
        @@ "caps" :> JObj("capsApplicationDetailList" :> JArr(<<
            JObj("dateOfRequest" :> JStr("D1") @@ "subscriberName" :> JStr("SBI")
                 @@ "amountFinanced" :> Num(500))>>))))

TrustellReport ==
    JObj("Borrower" :> JObj(
            "BorrowerAddress" :> JArr(<<JObj("CreditAddress" :>
                                        JObj("PostalCode" :> JStr("560001")))>>)
            @@ "IdentifierPartition" :> JArr(<<JObj("ID" :> JObj("Id" :> JStr("PAN2")))>>)
            @@ "BorrowerTelephone" :> JArr(<<JObj("PhoneNumber" :>
                                        JObj("Number" :> JStr("M2")))>>)
            @@ "CreditScore" :> JObj("riskScore" :> JStr("720")))
         @@ "TradeLinePartition" :> JArr(<<JObj("TradeLine" :> JObj(
            "accountTypeDescription" :> JStr("Personal Loan")
            @@ "creditorName" :> JStr("ICICI") @@ "accountNumber" :> JStr("A2")
            @@ "OpenClosed" :> JObj("symbol" :> JStr("Open"))
            @@ "GrantedTrade" :> JObj("EMIAmount" :> Num(500))))>>)
         @@ "InquiryPartition" :> JArr(<<JObj("Inquiry" :> JObj(
            "inquiryDate" :> JStr("D2") @@ "subscriberName" :> JStr("AXIS")
            @@ "amount" :> Num(100)))>>))

TrustellDoc ==
    JObj("data" :> JObj("cibilData" :> JObj("GetCustomerAssetsResponse" :> JObj(
        "GetCustomerAssetsSuccess" :> JObj("Asset" :> JObj(
            "TrueLinkCreditReport" :> TrustellReport))))))

CplLoan ==
    JObj("accountType" :> JStr("Auto Loan") @@ "provider" :> JStr("KOTAK")
         @@ "accountNumber" :> JStr("A3") @@ "accountStatus" :> JStr("Closed")
         @@ "emi" :> Num(300))

CplReport ==
    JObj("reportSummary" :> JObj(
            "personalDetails" :> JObj("pan" :> JStr("PAN3") @@ "mobile" :> JStr("M3")
                                      @@ "pincode" :> JStr("400001"))
            @@ "creditScore" :> JObj("score" :> JStr("680")))
         @@ "creditAnalysis" :> JObj(
            "creditCards" :> JArr(<<JObj("accountType" :> JStr("Credit Card")
                                         @@ "provider" :> JStr("SBI"))>>)
            @@ "loans" :> JObj("personalLoans" :> JArr(<<CplLoan>>))
            @@ "enquiries" :> JObj("recent" :> JArr(<<
                JObj("date" :> JStr("D3") @@ "lender" :> JStr("HDFC"))>>))))

CplDoc == JObj("data" :> JObj("reportData" :> CplReport))

\* Bureau B's internal variant: "creditAnalysis" and "personalLoans" without
\* the "reportData"/"reportSummary" wrapper.
InternalDoc ==
    JObj("data" :> JObj("creditAnalysis" :> JObj(
        "loans" :> JObj("personalLoans" :> JArr(<<CplLoan>>)))))

UnknownDoc == JObj("foo" :> JStr("bar"))

\* json.loads(text): [ok, val].  ok = FALSE is a JSONDecodeError.
Decoded(val) == [ok |-> TRUE, val |-> val]
json_loads(s) ==
    CASE s = "T_EXPERIAN" -> Decoded(ExperianDoc)
      [] s = "T_TRUSTELL" -> Decoded(TrustellDoc)
      [] s = "T_CPL" -> Decoded(CplDoc)
      [] s = "T_INTERNAL" -> Decoded(InternalDoc)
      [] s = "T_UNKNOWN" -> Decoded(UnknownDoc)
      [] s = "T_ARRAY" -> Decoded(JArr(<<EmptyObj, CplDoc, ExperianDoc>>))
      [] s = "T_EXPERIAN_TWICE" -> Decoded(JArr(<<ExperianDoc, ExperianDoc>>))
      [] s = "T_EXPERIAN_QUOTED" -> Decoded(JStr("T_EXPERIAN"))
      [] s = "null" -> Decoded(JNull)
      [] s = "[]" -> Decoded(EmptyArr)
      [] s = "{}" -> Decoded(EmptyObj)
      [] s = "760" -> Decoded(Num(760))
      [] OTHER -> [ok |-> FALSE, val |-> JNull]

\* The tokens of str(json_data).lower(): a text that holds a JSON document
\* shows the keys and texts of that document.
RECURSIVE ReprTokens(_)
ReprTokens(j) ==
    CASE j.t = "str" -> IF json_loads(j.v).ok /\ json_loads(j.v).val.t \in {"obj", "arr"}
                        THEN ReprTokens(json_loads(j.v).val)
                        ELSE {Lower(j.v)}
      [] j.t = "arr" -> UNION {ReprTokens(j.v[i]) : i \in DOMAIN j.v}
      [] j.t = "obj" -> {Lower(k) : k \in DOMAIN j.v}
                          \cup UNION {ReprTokens(j.v[k]) : k \in DOMAIN j.v}
      [] OTHER -> {}

\* ------------------------------------------------------------------------
\* ParserEngine.identify_format
\* ------------------------------------------------------------------------
Tags == {"EXPERIAN_RAW", "TRUSTELL_CIBIL_RAW", "CPL_TRUSTELL_CIBIL",
         "EXPERIAN_INTERNAL", "UNKNOWN_FALLBACK", "INVALID_JSON"}

\* The ordered signature tests on data_str.
signature_tag(data_str) ==
    IF "xmljsonresponse" \in data_str THEN "EXPERIAN_RAW"
    ELSE IF "cibildata" \in data_str /\ "getcustomerassetsresponse" \in data_str
         THEN "TRUSTELL_CIBIL_RAW"
    ELSE IF "reportdata" \in data_str /\ "reportsummary" \in data_str
         THEN "CPL_TRUSTELL_CIBIL"
    ELSE IF "creditanalysis" \in data_str /\ "personalloans" \in data_str
         THEN "EXPERIAN_INTERNAL"
    ELSE "UNKNOWN_FALLBACK"

RECURSIVE identify_format(_)
\* identify_format without the recursion on json_data[0]: the whole list is
\* stringified and searched
identify_format_whole_list(json_data) ==
    IF IsStr(json_data) /\ ~json_loads(json_data.v).ok THEN "INVALID_JSON"
    ELSE LET d == IF IsStr(json_data) THEN json_loads(json_data.v).val ELSE json_data
         IN  signature_tag(ReprTokens(d))

identify_format(json_data) ==
    IF IsStr(json_data) /\ ~json_loads(json_data.v).ok THEN "INVALID_JSON"
    ELSE LET d == IF IsStr(json_data) THEN json_loads(json_data.v).val ELSE json_data
         IN  IF IsList(d) /\ Len(d.v) > 0
             THEN identify_format(d.v[1])
             ELSE signature_tag(ReprTokens(d))

\* ------------------------------------------------------------------------
\* Helpers of parser_engine.py
\* ------------------------------------------------------------------------
\* The characters of a text.  Only digits and "." are told apart by the
\* code below; a text of other characters is one letter.
Chars(s) ==
    CASE s = "" -> <<>>
      [] s = "760" -> <<"7", "6", "0">>
      [] s = "720" -> <<"7", "2", "0">>
      [] s = "680" -> <<"6", "8", "0">>
      [] s = "110001" -> <<"1", "1", "0", "0", "0", "1">>
      [] s = "560001" -> <<"5", "6", "0", "0", "0", "1">>
      [] s = "400001" -> <<"4", "0", "0", "0", "0", "1">>
      [] s \in {"PAN1", "M1", "A1", "D1"} -> <<"a", "1">>
      [] s \in {"PAN2", "M2", "A2", "D2"} -> <<"a", "2">>
      [] s \in {"PAN3", "M3", "A3", "D3"} -> <<"a", "3">>
      [] s = "N/A" -> <<"N", "/", "A">>
      [] s = "1.5.2" -> <<"1", ".", "5", ".", "2">>
      [] s = "12.50" -> <<"1", "2", ".", "5", "0">>
      [] s = "₹1,23,456.50" ->
           <<"₹", "1", ",", "2", "3", ",", "4", "5", "6", ".", "5", "0">>
      [] s = "-5" -> <<"-", "5">>
      [] s = "  42 " -> <<" ", " ", "4", "2", " ">>
      [] s = "   " -> <<" ", " ", " ">>
      [] s = "." -> <<".">>
      [] s = "5." -> <<"5", ".">>
      [] s = "560001.0" -> <<"5", "6", "0", "0", "0", "1", ".", "0">>
      [] s = " 400001 " -> <<" ", "4", "0", "0", "0", "0", "1", " ">>
      [] s = "M1.0" -> <<"a", "1", ".", "0">>
      [] s = " M2 " -> <<" ", "a", "2", " ">>
      [] s = "M1.05" -> <<"a", "1", ".", "0", "5">>
      [] s = "M15" -> <<"a", "1", "5">>
      [] OTHER -> <<"a">>

Digit(c) ==
    CASE c = "0" -> 0 [] c = "1" -> 1 [] c = "2" -> 2 [] c = "3" -> 3
      [] c = "4" -> 4 [] c = "5" -> 5 [] c = "6" -> 6 [] c = "7" -> 7
      [] c = "8" -> 8 [] c = "9" -> 9
IsDigit(c) == c \in {"0", "1", "2", "3", "4", "5", "6", "7", "8", "9"}

RECURSIVE DecimalDigits(_)
\* the decimal digits of a natural number, as characters
DecimalDigits(n) ==
    LET d == <<"0", "1", "2", "3", "4", "5", "6", "7", "8", "9">>[(n % 10) + 1]
    IN  IF n < 10 THEN <<d>> ELSE Append(DecimalDigits(n \div 10), d)

\* Document order of the keys of the vocabulary (dicts keep insertion order).
KeyOrder ==
    <<"xmlJsonResponse", "currentApplication", "currentApplicationDetails",
      "currentApplicantdetails", "incomeTaxPan", "mobilePhoneNumber",
      "currentApplicantAddressDetails", "pinCode", "score", "bureauScore",
      "caisAccount", "caisAccountDetails", "accountType", "subscriberName",
      "provider", "accountNumber", "accountStatus",
      "scheduledMonthlyPaymentAmount", "emi", "caps",
      "capsApplicationDetailList", "dateOfRequest", "amountFinanced",
      "data", "cibilData", "GetCustomerAssetsResponse",
      "GetCustomerAssetsSuccess", "Asset", "TrueLinkCreditReport", "Borrower",
      "BorrowerAddress", "CreditAddress", "PostalCode", "IdentifierPartition",
      "ID", "Id", "BorrowerTelephone", "PhoneNumber", "Number", "CreditScore",
      "riskScore", "TradeLinePartition", "TradeLine", "accountTypeDescription",
      "creditorName", "OpenClosed", "symbol", "GrantedTrade", "EMIAmount",
      "InquiryPartition", "Inquiry", "inquiryDate", "amount", "reportData",
      "reportSummary", "personalDetails", "pan", "mobile", "pincode",
      "creditScore", "creditAnalysis", "creditCards", "loans", "personalLoans",
      "enquiries", "recent", "date", "lender", "foo", "error", "url">>

OrderedKeys(d) == SelectSeq(KeyOrder, LAMBDA k : k \in DOMAIN d.v)

RECURSIVE Concat(_)
Concat(seqs) == IF seqs = <<>> THEN <<>> ELSE Head(seqs) \o Concat(Tail(seqs))

\* The characters of str(value) that the pattern [^\d.] keeps.
RECURSIVE NumericChars(_)
NumericChars(j) ==
    LET keep(cs) == SelectSeq(cs, LAMBDA c : IsDigit(c) \/ c = ".")
        abs == IF j.v < 0 THEN 0 - j.v ELSE j.v
        frac == abs % Scale
    IN  CASE j.t = "null" -> <<>>
          [] j.t = "str" -> keep(Chars(j.v))
          [] j.t = "num" ->
               IF frac = 0 THEN DecimalDigits(abs \div Scale)
               ELSE DecimalDigits(abs \div Scale) \o <<".">>
                    \o (IF frac < 10 THEN <<"0">> ELSE <<>>) \o DecimalDigits(frac)
          [] j.t = "arr" -> Concat([i \in DOMAIN j.v |-> NumericChars(j.v[i])])
          [] j.t = "obj" ->
               LET ks == OrderedKeys(j)
               IN  Concat([i \in DOMAIN ks |->
                              keep(Chars(ks[i])) \o NumericChars(j.v[ks[i]])])

RECURSIVE DigitsValue(_)
DigitsValue(cs) ==
    IF cs = <<>> THEN 0
    ELSE 10 * DigitsValue(SubSeq(cs, 1, Len(cs) - 1)) + Digit(cs[Len(cs)])

\* a float that reads through a second decimal point instead of failing
ParseFloat_lenient(clean) ==
    LET dots == {i \in DOMAIN clean : clean[i] = "."}
        p == IF dots = {} THEN Len(clean) + 1
             ELSE CHOOSE i \in dots : \A k \in dots : i <= k
        whole == SubSeq(clean, 1, p - 1)
        fraction == SelectSeq(SubSeq(clean, p + 1, Len(clean)), IsDigit)
        f2 == SubSeq(fraction \o <<"0", "0">>, 1, 2)
    IN  IF Len(whole) + Len(fraction) = 0
        THEN [ok |-> FALSE, val |-> 0]
        ELSE [ok |-> TRUE, val |-> DigitsValue(whole) * Scale + DigitsValue(f2)]

\* float(clean) in units of 1/Scale; [ok |-> FALSE] is the ValueError.
ParseFloat(clean) ==
    LET dots == {i \in DOMAIN clean : clean[i] = "."}
        p == IF dots = {} THEN Len(clean) + 1 ELSE CHOOSE i \in dots : TRUE
        whole == SubSeq(clean, 1, p - 1)
        fraction == SubSeq(clean, p + 1, Len(clean))
        f2 == SubSeq(fraction \o <<"0", "0">>, 1, 2)
    IN  IF Cardinality(dots) > 1 \/ Len(whole) + Len(fraction) = 0
        THEN [ok |-> FALSE, val |-> 0]
        ELSE [ok |-> TRUE, val |-> DigitsValue(whole) * Scale + DigitsValue(f2)]

_clean_numeric(value) ==
    IF IsNone(value) THEN JNum(0)
    ELSE LET r == ParseFloat(NumericChars(value))
         IN  IF r.ok THEN JNum(r.val) ELSE JNum(0)

\* str(value) for the values a text field of the vocabulary can hold
PyStr(x) ==
    CASE x.t = "str" -> x
      [] x.t = "null" -> JStr("None")
      [] x = Num(5) -> JStr("5")
      [] x = EmptyArr -> JStr("[]")
      [] x = JArr(<<Num(5)>>) -> JStr("[5]")
      [] x = EmptyObj -> JStr("{}")

\* Keys of a _get_nested path: a dict key or a list index.
K(s) == [key |-> s, idx |-> 0 - 1]
Ix(i) == [key |-> "", idx |-> i]

RECURSIVE _get_nested(_, _)
_get_nested(d, keys) ==
    IF keys = <<>> THEN d
    ELSE LET k == Head(keys)
         IN  IF IsDict(d)
             THEN _get_nested(IF k.idx < 0 THEN Get(d, k.key) ELSE JNull, Tail(keys))
             ELSE IF IsList(d) /\ k.idx >= 0 /\ Len(d.v) > k.idx
                  THEN _get_nested(d.v[k.idx + 1], Tail(keys))
                  ELSE JNull

\* safe(obj, *keys) of _parse_experian_raw
RECURSIVE safe(_, _)
safe(obj, keys) ==
    IF keys = <<>> THEN obj
    ELSE IF IsDict(obj) THEN safe(Get(obj, Head(keys)), Tail(keys))
         ELSE JNull

\* _get_path(data, "a.b.c") with the path given as <<"a", "b", "c">>; no
\* caller passes a bracketed segment or a path that starts with
\* "xmlJsonResponse".  ref.get on a non-dict raises inside the try: None.
RECURSIVE _get_path(_, _)
_get_path(data, keys) ==
    IF keys = <<>> THEN data
    ELSE IF ~IsDict(data) THEN JNull
         ELSE LET ref == Get(data, Head(keys))
              IN  IF IsNone(ref) THEN JNull ELSE _get_path(ref, Tail(keys))

\* for x in value: the items, or a TypeError for None and numbers.
Iterable(j) == j.t \in {"arr", "str", "obj"}
Iter(j) ==
    CASE j.t = "arr" -> j.v
      [] j.t = "str" -> [i \in DOMAIN Chars(j.v) |-> JStr(Chars(j.v)[i])]
      [] j.t = "obj" -> [i \in DOMAIN OrderedKeys(j) |-> JStr(OrderedKeys(j)[i])]
      [] OTHER -> <<>>

Map(f(_), q) == [i \in DOMAIN q |-> f(q[i])]
All(P(_), q) == \A i \in DOMAIN q : P(q[i])

\* What an extractor does: raise, or return (lead, loans, enquiries).
Raise == [exc |-> TRUE, lead |-> JNull, loans |-> <<>>, enqs |-> <<>>]
Return(lead, loans, enqs) == [exc |-> FALSE, lead |-> lead, loans |-> loans, enqs |-> enqs]

\* ------------------------------------------------------------------------
\* The extractors.  Of the Lead the model keeps Customer_ID, PAN, Mobile,
\* Pincode, CIBIL_Score and Source; of a Loan Customer_ID,
\* Account_Type_Category, Bank_Name, Account_Number, Status and EMI_Amount;
\* an Enquiry is kept whole except Purpose.  The fields left out are read
\* with the same accessors as the ones kept.
\* ------------------------------------------------------------------------
_parse_experian_raw(data, cid) ==
    IF ~IsDict(data) THEN Raise
    ELSE
    LET root == GetD(data, "xmlJsonResponse", EmptyObj)
        app_details ==
            Or(safe(root, <<"currentApplication", "currentApplicationDetails">>), EmptyObj)
        applicant == Or(safe(app_details, <<"currentApplicantdetails">>), EmptyObj)
        other == Or(safe(app_details, <<"currentOtherDetails">>), EmptyObj)
        addr0 == safe(app_details, <<"currentApplicantAddressDetails">>)
        addr1 == IF IsList(addr0) /\ Len(addr0.v) > 0 THEN addr0.v[1] ELSE addr0
        addr == IF IsDict(addr1) THEN addr1 ELSE EmptyObj
        lead_info ==
            JObj("Customer_ID" :> cid
                 @@ "PAN" :> Get(applicant, "incomeTaxPan")
                 @@ "Mobile" :> Get(applicant, "mobilePhoneNumber")
                 @@ "Pincode" :> Get(addr, "pinCode")
                 @@ "CIBIL_Score" :> _clean_numeric(safe(root, <<"score", "bureauScore">>))
                 @@ "Source" :> JStr("Experian_Raw"))
        cais0 == Or(safe(root, <<"caisAccount", "caisAccountDetails">>), EmptyArr)
        cais_list == IF IsDict(cais0) THEN JArr(<<cais0>>) ELSE cais0
        loan(item) ==
            JObj("Customer_ID" :> cid
                 @@ "Account_Type_Category" :> Get(item, "accountType")
                 @@ "Bank_Name" :> Get(item, "subscriberName")
                 @@ "Account_Number" :> Get(item, "accountNumber")
                 @@ "Status" :> Get(item, "accountStatus")
                 @@ "EMI_Amount" :> _clean_numeric(Get(item, "scheduledMonthlyPaymentAmount")))
        caps0 == Or(safe(root, <<"caps", "capsApplicationDetailList">>), EmptyArr)
        caps_list == IF IsDict(caps0) THEN JArr(<<caps0>>) ELSE caps0
        enquiry(item) ==
            JObj("Customer_ID" :> cid
                 @@ "Date" :> Get(item, "dateOfRequest")
                 @@ "Lender" :> Get(item, "subscriberName")
                 @@ "Amount" :> _clean_numeric(Get(item, "amountFinanced")))
    IN  IF ~IsDict(applicant) \/ ~IsDict(other)
           \/ ~Iterable(cais_list) \/ ~Iterable(caps_list)
        THEN Raise
        ELSE Return(lead_info,
                    Map(loan, SelectSeq(Iter(cais_list), IsDict)),
                    Map(enquiry, SelectSeq(Iter(caps_list), IsDict)))

\* _get_payment_history(node) raises on a list with a non-dict item.
_get_payment_history_raises(node) ==
    LET ph == Get(node, "paymentHistory")
    IN  IsList(ph) /\ ~All(IsDict, ph.v)

\* extract(n) of _parse_cpl_trustell; n.get raises on a non-dict.
cpl_extract_raises(n) == ~IsDict(n) \/ _get_payment_history_raises(n)
cpl_extract(n, cid) ==
    JObj("Customer_ID" :> cid
         @@ "Account_Type_Category" :> GetD(n, "accountType", JStr("Other"))
         @@ "Bank_Name" :> Get(n, "provider")
         @@ "Account_Number" :> Get(n, "accountNumber")
         @@ "Status" :> Get(n, "accountStatus")
         @@ "EMI_Amount" :> _clean_numeric(Get(n, "emi")))

\* The lists under a "loans" dict, in key order; other values are skipped.
LoanGroups(ld) ==
    IF IsDict(ld)
    THEN Concat([i \in DOMAIN OrderedKeys(ld) |->
                    IF IsList(ld.v[OrderedKeys(ld)[i]])
                    THEN ld.v[OrderedKeys(ld)[i]].v ELSE <<>>])
    ELSE <<>>

\* "k in x" for a truthy x: key of a dict, item of a list, part of a text;
\* a TypeError on a number.
InRaises(x) == x.t \in {"num", "null"}
In(k, x) ==
    CASE x.t = "obj" -> HasKey(x, k)
      [] x.t = "arr" -> \E i \in DOMAIN x.v : x.v[i] = JStr(k)
      [] x.t = "str" -> x.v = k
      [] OTHER -> FALSE

_parse_cpl_trustell(data, cid) ==
    IF ~IsDict(data) THEN Raise
    ELSE IF ~IsDict(GetD(data, "data", EmptyObj)) THEN Raise
    ELSE
    LET root1 == Get(GetD(data, "data", EmptyObj), "reportData")
        root2 == IF ~Truthy(root1) THEN Get(data, "reportData") ELSE root1
        root3 == IF ~Truthy(root2) THEN data ELSE root2
        \* root.get("ccrResponse", {}) on a list or text that holds it raises
        root == IF IsDict(root3) /\ In("ccrResponse", root3)
                THEN GetD(root3, "ccrResponse", EmptyObj) ELSE root3
        pd(f) == _get_path(root, <<"reportSummary", "personalDetails", f>>)
        lead_info ==
            JObj("Customer_ID" :> cid
                 @@ "PAN" :> pd("pan")
                 @@ "Mobile" :> pd("mobile")
                 @@ "Pincode" :> pd("pincode")
                 @@ "CIBIL_Score" :>
                      _clean_numeric(_get_path(root, <<"reportSummary", "creditScore", "score">>))
                 @@ "Source" :> JStr("CPL_Trustell_Mapped"))
        ca == GetD(root, "creditAnalysis", EmptyObj)
        cards == Or(GetD(ca, "creditCards", EmptyArr), EmptyArr)
        grouped == LoanGroups(GetD(ca, "loans", EmptyObj))
        others == Or(GetD(ca, "otherLoans", EmptyArr), EmptyArr)
        recent == Or(_get_nested(ca, <<K("enquiries"), K("recent")>>), EmptyArr)
        extract(n) == cpl_extract(n, cid)
        enquiry(e) ==
            JObj("Customer_ID" :> cid
                 @@ "Date" :> Get(e, "date")
                 @@ "Lender" :> Get(e, "lender")
                 @@ "Amount" :> _clean_numeric(Get(e, "amount")))
    IN  IF InRaises(root3) \/ ~IsDict(root) \/ ~IsDict(ca)
        THEN Raise
        ELSE IF ~Iterable(cards) \/ ~Iterable(others) \/ ~Iterable(recent)
        THEN Raise
        ELSE IF (\E i \in DOMAIN Iter(cards) : cpl_extract_raises(Iter(cards)[i]))
                \/ (\E i \in DOMAIN grouped : cpl_extract_raises(grouped[i]))
                \/ (\E i \in DOMAIN Iter(others) : cpl_extract_raises(Iter(others)[i]))
                \/ ~All(IsDict, Iter(recent))
        THEN Raise
        ELSE Return(lead_info,
                    Map(extract, Iter(cards)) \o Map(extract, grouped)
                        \o Map(extract, Iter(others)),
                    Map(enquiry, Iter(recent)))

TrustellBasePath ==
    <<"data", "cibilData", "GetCustomerAssetsResponse", "GetCustomerAssetsSuccess",
      "Asset", "TrueLinkCreditReport">>

_parse_trustell_cibil_raw(data, cid) ==
    LET base == _get_path(data, TrustellBasePath)
    IN
    IF ~Truthy(base)
    THEN Return(JObj("Customer_ID" :> cid @@ "Source" :> JStr("Trustell_Error")), <<>>, <<>>)
    ELSE IF ~IsDict(base) THEN Raise
    ELSE
    LET borrower == GetD(base, "Borrower", EmptyObj)
        addr0 == _get_nested(borrower, <<K("BorrowerAddress")>>)
        first_is_list == IsList(addr0) /\ Len(addr0.v) > 0
        addr == IF first_is_list /\ IsDict(addr0.v[1])
                THEN GetD(addr0.v[1], "CreditAddress", EmptyObj) ELSE addr0
        lead_raises ==
            \/ first_is_list /\ ~IsDict(addr0.v[1])   \* addr[0].get
            \/ ~IsDict(borrower)                      \* borrower.get("TotalIncome")
            \/ ~IsDict(addr)                          \* addr.get("PostalCode")
        lead_info ==
            JObj("Customer_ID" :> cid
                 @@ "PAN" :> (IF HasKey(borrower, "IdentifierPartition")
                              THEN _get_nested(borrower, <<K("IdentifierPartition"), Ix(0),
                                                           K("ID"), K("Id")>>)
                              ELSE JStr(""))
                 @@ "Mobile" :> _get_nested(borrower, <<K("BorrowerTelephone"), Ix(0),
                                                        K("PhoneNumber"), K("Number")>>)
                 @@ "Pincode" :> Get(addr, "PostalCode")
                 @@ "CIBIL_Score" :>
                      _clean_numeric(_get_nested(borrower, <<K("CreditScore"), K("riskScore")>>))
                 @@ "Source" :> JStr("Trustell_CIBIL_Raw_Mapped"))
        lines == Or(GetD(base, "TradeLinePartition", EmptyArr), EmptyArr)
        tl_of(item) == GetD(item, "TradeLine", EmptyObj)
        line_raises(item) ==
            \/ ~IsDict(item)
            \/ ~IsDict(tl_of(item))
            \/ ~IsDict(GetD(tl_of(item), "GrantedTrade", EmptyObj))
        \* str(tl.get("accountTypeDescription", ""))
        type_text(tl) == PyStr(GetD(tl, "accountTypeDescription", JStr("")))
        loan(item) ==
            LET tl == tl_of(item)
            IN  JObj("Customer_ID" :> cid
                     @@ "Account_Type_Category" :> type_text(tl)
                     @@ "Bank_Name" :> Get(tl, "creditorName")
                     @@ "Account_Number" :> Get(tl, "accountNumber")
                     @@ "Status" :> _get_nested(tl, <<K("OpenClosed"), K("symbol")>>)
                     @@ "EMI_Amount" :>
                          _clean_numeric(Get(GetD(tl, "GrantedTrade", EmptyObj), "EMIAmount")))
        inqs == Or(GetD(base, "InquiryPartition", EmptyArr), EmptyArr)
        inq_raises(item) == ~IsDict(item) \/ ~IsDict(GetD(item, "Inquiry", EmptyObj))
        enquiry(item) ==
            LET inq == GetD(item, "Inquiry", EmptyObj)
            IN  JObj("Customer_ID" :> cid
                     @@ "Date" :> Get(inq, "inquiryDate")
                     @@ "Lender" :> Get(inq, "subscriberName")
                     @@ "Amount" :> _clean_numeric(Get(inq, "amount")))
    IN  IF lead_raises THEN Raise
        ELSE IF ~Iterable(lines) \/ ~Iterable(inqs) THEN Raise
        ELSE IF (\E i \in DOMAIN Iter(lines) : line_raises(Iter(lines)[i]))
                \/ (\E i \in DOMAIN Iter(inqs) : inq_raises(Iter(inqs)[i]))
        THEN Raise
        ELSE Return(lead_info, Map(loan, Iter(lines)), Map(enquiry, Iter(inqs)))

InternalSummary == <<"data", "reportData", "reportSummary">>
InternalAnalysis == <<"data", "reportData", "creditAnalysis">>

_parse_experian_internal(data, cid) ==
    LET lead_info ==
            JObj("Customer_ID" :> cid
                 @@ "PAN" :> _get_path(data, InternalSummary \o <<"personalDetails", "pan">>)
                 @@ "Pincode" :>
                      _get_path(data, InternalSummary \o <<"personalDetails", "pincode">>)
                 @@ "CIBIL_Score" :>
                      _clean_numeric(_get_path(data, InternalSummary \o <<"creditScore", "score">>))
                 @@ "Source" :> JStr("Experian_Internal_Mapped"))
        \* extract(n): no Account_Number in this format
        extract(n) ==
            JObj("Customer_ID" :> cid
                 @@ "Account_Type_Category" :> GetD(n, "accountType", JStr("Other"))
                 @@ "Bank_Name" :> Get(n, "provider")
                 @@ "EMI_Amount" :> _clean_numeric(Get(n, "emi"))
                 @@ "Status" :> Get(n, "accountStatus"))
        cards == Or(_get_path(data, InternalAnalysis \o <<"creditCards">>), EmptyArr)
        grouped == LoanGroups(Or(_get_path(data, InternalAnalysis \o <<"loans">>), EmptyObj))
    IN  IF ~Iterable(cards) THEN Raise
        ELSE IF ~All(IsDict, Iter(cards)) \/ ~All(IsDict, grouped) THEN Raise
        ELSE Return(lead_info, Map(extract, Iter(cards)) \o Map(extract, grouped), <<>>)

_parse_universal_fallback(data, cid) ==
    Return(JObj("Customer_ID" :> cid @@ "Source" :> JStr("Unknown")), <<>>, <<>>)

\* ------------------------------------------------------------------------
\* EnrichmentEngine.get_score_band
\* ------------------------------------------------------------------------
\* float(score) in units of 1/Scale: of a number the number, of a text of
\* digits and points what float reads, of anything else the exception
FloatOf(score) ==
    CASE score.t = "num" -> [ok |-> TRUE, val |-> score.v]
      [] score.t = "str" ->
           LET cs == Chars(score.v)
           IN  IF \A k \in DOMAIN cs : IsDigit(cs[k]) \/ cs[k] = "."
               THEN ParseFloat(cs)
               ELSE [ok |-> FALSE, val |-> 0]
      [] OTHER -> [ok |-> FALSE, val |-> 0]

\* the comparisons written with ">" in place of ">="
get_score_band_exclusive(score) ==
    LET f == FloatOf(score)
        s == f.val
    IN  IF ~f.ok THEN "Zero/No Score"
        ELSE IF s > 750 * Scale THEN "750+"
        ELSE IF s > 700 * Scale THEN "700-749"
        ELSE IF s > 650 * Scale THEN "650-699"
        ELSE IF s > 300 * Scale THEN "300-649"
        ELSE "Zero/No Score"

get_score_band(score) ==
    LET f == FloatOf(score)
        s == f.val
    IN  IF ~f.ok THEN "Zero/No Score"
        ELSE IF s >= 750 * Scale THEN "750+"
        ELSE IF s >= 700 * Scale THEN "700-749"
        ELSE IF s >= 650 * Scale THEN "650-699"
        ELSE IF s >= 300 * Scale THEN "300-649"
        ELSE "Zero/No Score"

\* dict.update(other)
Update(d, other) == JObj(other @@ d.v)

\* ------------------------------------------------------------------------
\* EnrichmentEngine.get_standard_category
\* ------------------------------------------------------------------------
\* EnrichmentEngine.ACCOUNT_TYPE_MAP
ACCOUNT_TYPE_MAP ==
    "housing loan" :> "Home_Loans"
    @@ "overdraft" :> "Home_Loans"
    @@ "property loan" :> "Home_Loans"
    @@ "microfinance housing loan" :> "Home_Loans"
    @@ "pradhan mantri awas yojana - credit link subsidy scheme may clss" :> "Home_Loans"
    @@ "pm awas yojana - clss" :> "Home_Loans"
    @@ "pradhan mantri awas yojana - clss" :> "Home_Loans"
    @@ "auto loan" :> "Auto_Loans"
    @@ "used car loan" :> "Auto_Loans"
    @@ "commercial vehicle loan" :> "Auto_Loans"
    @@ "two-wheeler loan" :> "Auto_Loans"
    @@ "tractor loan" :> "Auto_Loans"
    @@ "education loan" :> "Education_Loans"
    @@ "educational loan" :> "Education_Loans"
    @@ "gold loan" :> "Gold_Loans"
    @@ "priity sect- gold loan [secured]" :> "Gold_Loans"
    @@ "priority sector gold loan" :> "Gold_Loans"
    @@ "personal loan" :> "Personal_Loans"
    @@ "sht term personal loan [unsecured]" :> "Personal_Loans"
    @@ "short term personal loan" :> "Personal_Loans"
    @@ "loan on credit card" :> "Personal_Loans"
    @@ "p2p personal loan" :> "Personal_Loans"
    @@ "microfinance personal loan" :> "Personal_Loans"
    @@ "loan to professional" :> "Personal_Loans"
    @@ "consumer loan" :> "Personal_Loans"
    @@ "credit card" :> "Credit_Cards"
    @@ "kisan credit card" :> "Credit_Cards"
    @@ "secured credit card" :> "Credit_Cards"
    @@ "cpate credit card" :> "Credit_Cards"
    @@ "corporate credit card" :> "Credit_Cards"
    @@ "fleet card" :> "Credit_Cards"
    @@ "business loan" :> "Business_Loans"
    @@ "business loan - priity sect- others" :> "Business_Loans"
    @@ "loan against bank deposits" :> "Business_Loans"
    @@ "business loan - priity sect- small business" :> "Business_Loans"
    @@ "business loan - unsecured" :> "Business_Loans"
    @@ "business loan - priity sect- agriculture" :> "Business_Loans"
    @@ "microfinance business loan" :> "Business_Loans"
    @@ "loan against shares/securities" :> "Business_Loans"
    @@ "business loan - secured" :> "Business_Loans"
    @@ "mudra loans - shishu / kishor / tarun" :> "Business_Loans"
    @@ "gecl loan secured" :> "Business_Loans"
    @@ "gecl loan unsecured" :> "Business_Loans"
    @@ "other account types" :> "Other_Loans"
    @@ "other" :> "Other_Loans"
    @@ "others" :> "Other_Loans"

\* str.lower().strip() on the account types of the vocabulary
LowerStrip(s) ==
    CASE s = "Housing Loan" -> "housing loan"
      [] s = "Personal Loan" -> "personal loan"
      [] s = "Auto Loan" -> "auto loan"
      [] s = "Credit Card" -> "credit card"
      [] s = "Other" -> "other"
      [] s = "Overdraft" -> "overdraft"
      [] s = " Loan on Credit Card" -> "loan on credit card"
      [] s = "  HOME EQUITY " -> "home equity"
      [] s = "Scooter" -> "scooter"
      [] s = "Education Card" -> "education card"
      [] s = "Business Credit Card" -> "business credit card"
      [] s = "Gold Personal" -> "gold personal"
      [] s = "Carpet Loan" -> "carpet loan"
      [] s = "xyz tractor finance" -> "xyz tractor finance"
      [] s = "x" -> "x"
      [] s = "None" -> "none"
      [] s = "5" -> "5"
      [] s = "[]" -> "[]"
      [] s = "[5]" -> "[5]"
      [] s = "{}" -> "{}"

\* the characters of the keys and of the keywords
Letters(s) ==
    CASE s = "home equity" -> <<"h", "o", "m", "e", " ", "e", "q", "u", "i", "t", "y">>
      [] s = "scooter" -> <<"s", "c", "o", "o", "t", "e", "r">>
      [] s = "education card" -> <<"e", "d", "u", "c", "a", "t", "i", "o", "n", " ", "c", "a", "r", "d">>
      [] s = "business credit card" -> <<"b", "u", "s", "i", "n", "e", "s", "s", " ", "c", "r", "e", "d", "i", "t", " ", "c", "a", "r", "d">>
      [] s = "gold personal" -> <<"g", "o", "l", "d", " ", "p", "e", "r", "s", "o", "n", "a", "l">>
      [] s = "carpet loan" -> <<"c", "a", "r", "p", "e", "t", " ", "l", "o", "a", "n">>
      [] s = "xyz tractor finance" -> <<"x", "y", "z", " ", "t", "r", "a", "c", "t", "o", "r", " ", "f", "i", "n", "a", "n", "c", "e">>
      [] s = "x" -> <<"x">>
      [] s = "none" -> <<"n", "o", "n", "e">>
      [] s = "5" -> <<"5">>
      [] s = "[]" -> <<"[", "]">>
      [] s = "[5]" -> <<"[", "5", "]">>
      [] s = "{}" -> <<"{", "}">>
      [] s = "credit card" -> <<"c", "r", "e", "d", "i", "t", " ", "c", "a", "r", "d">>
      [] s = "housing" -> <<"h", "o", "u", "s", "i", "n", "g">>
      [] s = "home" -> <<"h", "o", "m", "e">>
      [] s = "property" -> <<"p", "r", "o", "p", "e", "r", "t", "y">>
      [] s = "awas" -> <<"a", "w", "a", "s">>
      [] s = "education" -> <<"e", "d", "u", "c", "a", "t", "i", "o", "n">>
      [] s = "card" -> <<"c", "a", "r", "d">>
      [] s = "auto" -> <<"a", "u", "t", "o">>
      [] s = "car" -> <<"c", "a", "r">>
      [] s = "vehicle" -> <<"v", "e", "h", "i", "c", "l", "e">>
      [] s = "tractor" -> <<"t", "r", "a", "c", "t", "o", "r">>
      [] s = "wheeler" -> <<"w", "h", "e", "e", "l", "e", "r">>
      [] s = "business" -> <<"b", "u", "s", "i", "n", "e", "s", "s">>
      [] s = "mudra" -> <<"m", "u", "d", "r", "a">>
      [] s = "gecl" -> <<"g", "e", "c", "l">>
      [] s = "personal" -> <<"p", "e", "r", "s", "o", "n", "a", "l">>
      [] s = "consumer" -> <<"c", "o", "n", "s", "u", "m", "e", "r">>
      [] s = "gold" -> <<"g", "o", "l", "d">>
      [] s = "housing loan" -> <<"h", "o", "u", "s", "i", "n", "g", " ", "l", "o", "a", "n">>
      [] s = "personal loan" -> <<"p", "e", "r", "s", "o", "n", "a", "l", " ", "l", "o", "a", "n">>
      [] s = "auto loan" -> <<"a", "u", "t", "o", " ", "l", "o", "a", "n">>
      [] s = "overdraft" -> <<"o", "v", "e", "r", "d", "r", "a", "f", "t">>
      [] s = "other" -> <<"o", "t", "h", "e", "r">>
      [] s = "loan on credit card" -> <<"l", "o", "a", "n", " ", "o", "n", " ", "c", "r", "e", "d", "i", "t", " ", "c", "a", "r", "d">>

\* word in key
Contains(key, word) ==
    LET h == Letters(key)
        n == Letters(word)
    IN  \E k \in 1..(Len(h) - Len(n) + 1) : SubSeq(h, k, k + Len(n) - 1) = n

\* the category without the keyword tests and the default: a key that
\* misses the map is returned as it is
get_standard_category_exact_only(raw_type) ==
    IF ~Truthy(raw_type) THEN "Other_Loans"
    ELSE LET key == LowerStrip(PyStr(raw_type).v)
         IN  IF key \in DOMAIN ACCOUNT_TYPE_MAP THEN ACCOUNT_TYPE_MAP[key] ELSE key

\* the category with the keyword tests before the look-up in the map
get_standard_category_keywords_first(raw_type) ==
    IF ~Truthy(raw_type) THEN "Other_Loans"
    ELSE LET key == LowerStrip(PyStr(raw_type).v)
             has(word) == Contains(key, word)
         IN  IF has("housing") \/ has("home") \/ has("property") \/ has("awas")
             THEN "Home_Loans"
             ELSE IF has("education") THEN "Education_Loans"
             ELSE IF has("credit card") \/ has("card") THEN "Credit_Cards"
             ELSE IF has("auto") \/ has("car") \/ has("vehicle") \/ has("tractor")
                     \/ has("wheeler")
                  THEN "Auto_Loans"
             ELSE IF has("business") \/ has("mudra") \/ has("gecl") THEN "Business_Loans"
             ELSE IF has("personal") \/ has("consumer") THEN "Personal_Loans"
             ELSE IF has("gold") THEN "Gold_Loans"
             ELSE IF key \in DOMAIN ACCOUNT_TYPE_MAP THEN ACCOUNT_TYPE_MAP[key]
             ELSE "Other_Loans"

get_standard_category(raw_type) ==
    IF ~Truthy(raw_type) THEN "Other_Loans"
    ELSE LET key == LowerStrip(PyStr(raw_type).v)
             has(word) == Contains(key, word)
         IN  IF key \in DOMAIN ACCOUNT_TYPE_MAP THEN ACCOUNT_TYPE_MAP[key]
             ELSE IF has("housing") \/ has("home") \/ has("property") \/ has("awas")
                  THEN "Home_Loans"
             ELSE IF has("education") THEN "Education_Loans"
             ELSE IF has("credit card") \/ has("card") THEN "Credit_Cards"
             ELSE IF has("auto") \/ has("car") \/ has("vehicle") \/ has("tractor")
                     \/ has("wheeler")
                  THEN "Auto_Loans"
             ELSE IF has("business") \/ has("mudra") \/ has("gecl") THEN "Business_Loans"
             ELSE IF has("personal") \/ has("consumer") THEN "Personal_Loans"
             ELSE IF has("gold") THEN "Gold_Loans"
             ELSE "Other_Loans"

\* ------------------------------------------------------------------------
\* ParserEngine.parse: (lead, loans, enquiries); an absent Lead is None
\* ------------------------------------------------------------------------
Absent == [lead |-> JNull, loans |-> <<>>, enqs |-> <<>>]

dispatch(fmt, json_data, customer_id) ==
    CASE fmt = "EXPERIAN_RAW" -> _parse_experian_raw(json_data, customer_id)
      [] fmt = "TRUSTELL_CIBIL_RAW" -> _parse_trustell_cibil_raw(json_data, customer_id)
      [] fmt = "CPL_TRUSTELL_CIBIL" -> _parse_cpl_trustell(json_data, customer_id)
      [] fmt = "EXPERIAN_INTERNAL" -> _parse_experian_internal(json_data, customer_id)
      [] OTHER -> _parse_universal_fallback(json_data, customer_id)

\* The "if lead:" block: band, the fields every sub-record shares and the
\* category of every Loan.
enrich(r) ==
    LET lead == Update(r.lead, "CIBIL_Band" :>
                         JStr(get_score_band(GetD(r.lead, "CIBIL_Score", JNum(0)))))
        common == "PAN" :> Get(lead, "PAN") @@ "Mobile" :> Get(lead, "Mobile")
        stamp(x) == Update(x, common)
        categorise(x) ==
            Update(stamp(x), "Mapped_Category" :>
                     JStr(get_standard_category(Get(x, "Account_Type_Category"))))
    IN  [lead |-> lead, loans |-> Map(categorise, r.loans), enqs |-> Map(stamp, r.enqs)]

RECURSIVE parse(_, _)
parse(json_data, customer_id) ==
    IF IsStr(json_data) /\ ~json_loads(json_data.v).ok THEN Absent
    ELSE
    LET d == IF IsStr(json_data) THEN json_loads(json_data.v).val ELSE json_data
    IN  IF ~Truthy(d) THEN Absent
        ELSE IF IsList(d)
        THEN LET rs == [i \in DOMAIN d.v |-> parse(d.v[i], customer_id)]
                 kept == SelectSeq(rs, LAMBDA r : Truthy(r.lead))
             IN  [lead |-> IF kept = <<>> THEN JNull ELSE kept[1].lead,
                  loans |-> Concat([i \in DOMAIN kept |-> kept[i].loans]),
                  enqs |-> Concat([i \in DOMAIN kept |-> kept[i].enqs])]
        ELSE LET r == dispatch(identify_format(d), d, customer_id)
             IN  IF r.exc THEN Absent
                 ELSE IF Truthy(r.lead) THEN enrich(r)
                 ELSE [lead |-> r.lead, loans |-> r.loans, enqs |-> r.enqs]

\* ------------------------------------------------------------------------
\* InsightEngine.generate_analytics.  Of the row the model keeps
\* Customer_ID, Total_Active_Loans, Total_EMI_Obligation and the eight
\* <prefix>_Count.
\* ------------------------------------------------------------------------
\* "open" in st or "active" in st or "live" in st, st = str(Status).lower()
StatusIsActive(status) ==
    IsStr(status) /\ status.v \in {"Active", "Open", "ACTIVE", "Live", "Reopened",
                                    "Inactive"}

RECURSIVE SumEmi(_)
SumEmi(loans) ==
    IF loans = <<>> THEN 0 ELSE GetD(Head(loans), "EMI_Amount", JNum(0)).v + SumEmi(Tail(loans))

\* ", ".join(list(set(lenders))) raises on a lender that is not a text
generate_analytics_raises(loans) ==
    \E i \in DOMAIN loans : ~IsStr(GetD(loans[i], "Bank_Name", JStr("")))

\* the keys of the categories dict
Categories ==
    {"Home_Loans", "Auto_Loans", "Business_Loans", "Personal_Loans", "Credit_Cards",
     "Education_Loans", "Gold_Loans", "Other_Loans"}

\* f"{prefix}_Count", prefix = cat_name without "_Loans" and "_Cards"
CountKey(cat_name) ==
    CASE cat_name = "Home_Loans" -> "Home_Count"
      [] cat_name = "Auto_Loans" -> "Auto_Count"
      [] cat_name = "Business_Loans" -> "Business_Count"
      [] cat_name = "Personal_Loans" -> "Personal_Count"
      [] cat_name = "Credit_Cards" -> "Credit_Count"
      [] cat_name = "Education_Loans" -> "Education_Count"
      [] cat_name = "Gold_Loans" -> "Gold_Count"
      [] cat_name = "Other_Loans" -> "Other_Count"

\* the list of categories a loan is appended to
CategoryOf(loan) ==
    LET cat == GetD(loan, "Mapped_Category", JStr("Other_Loans"))
    IN  IF cat.t = "str" /\ cat.v \in Categories THEN cat.v ELSE "Other_Loans"

\* row[f"{prefix}_Count"] = len(data), for the eight categories
CountFields(loans) ==
    [key \in {CountKey(c) : c \in Categories} |->
        LET c == CHOOSE c \in Categories : CountKey(c) = key
        IN  Num(Cardinality({i \in DOMAIN loans : CategoryOf(loans[i]) = c}))]

generate_analytics(lead_info, loans) ==
    IF ~Truthy(lead_info) THEN EmptyObj
    ELSE JObj(CountFields(loans) @@ "Customer_ID" :> Get(lead_info, "Customer_ID")
              @@ "Total_Active_Loans" :>
                   Num(Cardinality({i \in DOMAIN loans :
                                        StatusIsActive(GetD(loans[i], "Status", JStr("")))}))
              @@ "Total_EMI_Obligation" :> JNum(SumEmi(loans)))

\* ------------------------------------------------------------------------
\* CleanerEngine (cleaner_engine.py is not among the sources; modelled
\* from the specification's section 4.5)
\* ------------------------------------------------------------------------
EmployeeMobiles == {"DBMOB"}

is_employee_lead(lead) ==
    IsStr(Get(lead, "Mobile")) /\ Get(lead, "Mobile").v \in EmployeeMobiles

\* the Lead deduplication key: PAN joined with Mobile
dedup_key(lead) == <<Get(lead, "PAN"), Get(lead, "Mobile")>>

\* first-seen-wins: the positions of q whose key has not occurred before
FirstSeen(q, key(_)) == {i \in DOMAIN q : \A j \in 1..(i - 1) : key(q[j]) # key(q[i])}

Pick(q, idx) == SelectSeq([i \in DOMAIN q |-> [pos |-> i, val |-> q[i]]],
                          LAMBDA e : e.pos \in idx)
Vals(es) == [i \in DOMAIN es |-> es[i].val]
SubSeqAt(q, idx) == Vals(Pick(q, idx))

process_leads(all_leads) ==
    LET emp_idx == {i \in DOMAIN all_leads : is_employee_lead(all_leads[i])}
        rest == SubSeqAt(all_leads, DOMAIN all_leads \ emp_idx)
        keep == FirstSeen(rest, dedup_key)
    IN  [clean |-> SubSeqAt(rest, keep),
         emp |-> SubSeqAt(all_leads, emp_idx),
         dupe |-> SubSeqAt(rest, DOMAIN rest \ keep)]

\* clean_sub_sheet(records, ids, unique_keys); unique_keys = <<>> is None
clean_sub_sheet(records, ids, unique_keys) ==
    LET mine == SubSeqAt(records, {i \in DOMAIN records : Get(records[i], "Customer_ID") \in ids})
        key(x) == [i \in DOMAIN unique_keys |-> Get(x, unique_keys[i])]
    IN  IF unique_keys = <<>> THEN mine ELSE SubSeqAt(mine, FirstSeen(mine, key))

\* ------------------------------------------------------------------------
\* run_etl_job: the data source and the job's inputs
\* ------------------------------------------------------------------------
\* BATCH_SIZE is 1000 in worker.py; the model pages by a small size.
BATCH_SIZE == 2
MaxRows == 5
MaxUrlRows == 3

CustomerIds == <<"C1", "C2", "C3", "C4", "C5", "C6", "C7", "C8">>

\* A source row without its customer id: the payload text (or, in URL mode,
\* the URL suffix) and the PAN / Mobile columns ("" when none is configured
\* or the cell is empty).
Kind(raw, pan, mob) == [raw_data |-> raw, db_pan |-> pan, db_mobile |-> mob, cid |-> ""]
FileRowKinds ==
    {Kind("T_EXPERIAN", "", ""), Kind("T_UNKNOWN", "", ""),
     Kind("T_UNKNOWN", "DBPAN", "DBMOB"), Kind("{bad", "", "")}
UrlRowKinds ==
    {Kind("u_experian", "", ""), Kind("u_unknown", "", ""),
     Kind("u_unknown", "DBPAN", "DBMOB")}

\* The customer id column is not unique: a row may repeat the id of the
\* first row (cid names the id; "" is an id of the row's own).
KindWithId(raw, pan, mob, cid) ==
    [raw_data |-> raw, db_pan |-> pan, db_mobile |-> mob, cid |-> cid]

\* Rows for the cleaning stage: Leads that share PAN and Mobile, a report
\* that lists its accounts and enquiries twice, an employee, a second
\* format, a row without a Lead.
MaxDedupRows == 3
DedupRowKinds ==
    {Kind("T_EXPERIAN", "", ""), KindWithId("T_EXPERIAN", "", "", "C1"),
     Kind("T_EXPERIAN_TWICE", "", ""), Kind("T_EXPERIAN", "DBPAN", "DBMOB"),
     Kind("T_CPL", "", ""), Kind("{bad", "", "")}

SeqsUpTo(S, n) == UNION {[1..m -> S] : m \in 0..n}

RecordDate == "2024-01-15"
DbName == "crm"

\* The document a URL serves when it answers 200 with JSON.
Remote(url) == IF url = "u_experian" THEN ExperianDoc ELSE UnknownDoc

\* What one HTTP request can come to.
Responses == {"json", "not_json", "http_error", "exception"}

\* fetch_url(session, url) for each of them
fetch_url(response, url) ==
    CASE response = "json" -> Remote(url)
      [] response = "not_json" ->
           JObj("error" :> JStr("INVALID_JSON_CONTENT") @@ "url" :> JStr(url))
      [] response = "http_error" -> JObj("error" :> JStr("HTTP_500") @@ "url" :> JStr(url))
      [] response = "exception" -> JObj("error" :> JStr("FETCH_FAIL") @@ "url" :> JStr(url))

Pending == [t |-> "pending", v |-> 0]

VARIABLES
    source,         \* the rows the query selects, in ORDER BY order
    db_ok,          \* the database accepts connections
    cfg_ok,         \* db_config and query_config hold every key that is read
    is_url_mode,    \* query_config["is_url_mode"]
    pc,             \* where run_etl_job is
    total_records, num_batches, i, total_fetched,
    chunk,          \* the page being processed, with its json_object column
    fetched,        \* results of the fetch tasks of the page
    r,              \* the row of the chunk the parse loop is at
    batch,          \* batch_leads, batch_loans, batch_enqs, batch_analysis
    files,          \* temp_dir: the checkpoint of each batch that wrote one
    progress,       \* the values pushed through update_state
    cleaned,        \* the frames computed by MERGE and CLEAN
    output,         \* the workbooks written
    result,         \* what the task returns
    hist,           \* what happened: failed count, failed pages, cancel point
    p_pc, p_in, p_tag, p_out,  \* a single call of identify_format and parse
    p_ret,                     \* what a single call of a helper returns
    pincode_file, employee_file,   \* data/pincode_master.csv, data/employee_master.xlsx
    is_loaded, pincode_cache, employee_cache,   \* the class attributes of EnrichmentEngine
    reads,          \* how many times each reference file was read
    m_calls,        \* how many calls of EnrichmentEngine were made
    m_ret,          \* what the last call returned
    m_first         \* the tables left by the first call

jobvars == <<source, db_ok, cfg_ok, is_url_mode, pc, total_records, num_batches, i,
             total_fetched, chunk, fetched, r, batch, files, progress, cleaned,
             output, result, hist>>
parsevars == <<p_pc, p_in, p_tag, p_out, p_ret>>
mastervars == <<pincode_file, employee_file, is_loaded, pincode_cache, employee_cache,
                reads, m_calls, m_ret, m_first>>
vars == <<jobvars, parsevars, mastervars>>

EmptyBatch == [leads |-> <<>>, loans |-> <<>>, enqs |-> <<>>, analysis |-> <<>>]
NoResult == [status |-> "none", error |-> "", total_rows |-> 0, total_fetched |-> 0,
             employees_found |-> 0]
NoHist == [count_failed |-> FALSE, pages_failed |-> {}, pages_read |-> {},
           broke_on_empty |-> FALSE, cancel_pc |-> "none", cancel_i |-> 0,
           cancel_r |-> 0, key_error |-> FALSE]
NoCleaned == [all_leads |-> <<>>, all_loans |-> <<>>, all_enqs |-> <<>>,
              all_analysis |-> <<>>,
              leads_clean |-> <<>>, leads_emp |-> <<>>, leads_dupe |-> <<>>,
              loans_clean |-> <<>>, enqs_clean |-> <<>>, an_clean |-> <<>>,
              loans_dupe |-> <<>>, enqs_dupe |-> <<>>, an_dupe |-> <<>>]

JobIdle ==
    /\ pc = "start" /\ total_records = 0 /\ num_batches = 0 /\ i = 0
    /\ total_fetched = 0 /\ chunk = <<>> /\ fetched = <<>> /\ r = 0
    /\ batch = EmptyBatch /\ files = <<>> /\ progress = <<>>
    /\ cleaned = NoCleaned /\ output = {} /\ result = NoResult /\ hist = NoHist

ParseIdle == p_pc = "off" /\ p_in = JNull /\ p_tag = "" /\ p_out = Absent /\ p_ret = JNull

\* _pincode_cache = {}, _employee_cache = set(), _is_loaded = False
MasterIdle ==
    /\ is_loaded = FALSE /\ pincode_cache = <<>> /\ employee_cache = {}
    /\ reads = [pincode |-> 0, employee |-> 0]
    /\ m_calls = 0 /\ m_ret = [fn |-> "", arg |-> JNull, val |-> JNull] /\ m_first = JNull

NoMasterFiles == pincode_file = "absent" /\ employee_file = "absent"

Init ==
    /\ is_url_mode \in BOOLEAN
    /\ source \in IF is_url_mode THEN SeqsUpTo(UrlRowKinds, MaxUrlRows)
                  ELSE SeqsUpTo(FileRowKinds, MaxRows)
                       \cup SeqsUpTo(DedupRowKinds, MaxDedupRows)
    /\ db_ok \in BOOLEAN
    /\ cfg_ok \in BOOLEAN
    /\ JobIdle
    /\ ParseIdle
    /\ MasterIdle /\ NoMasterFiles

\* ------------------------------------------------------------------------
\* run_etl_job, step by step
\* ------------------------------------------------------------------------
Max(a, b) == IF a > b THEN a ELSE b
Min(a, b) == IF a < b THEN a ELSE b
CeilDiv(a, b) == (a + b - 1) \div b

\* the outer "except Exception": return {"status": "Failed", "error": str(e)}
Failed(err) ==
    /\ pc' = "failed"
    /\ result' = [NoResult EXCEPT !.status = "Failed", !.error = err]

\* where the for loop goes after iteration i
AfterIteration(j) == IF j < num_batches THEN "read" ELSE "merge"

\* LIMIT BATCH_SIZE OFFSET i * BATCH_SIZE, with the customer ids of the rows
Page(j) ==
    LET lo == j * BATCH_SIZE + 1
        hi == Min(Len(source), (j + 1) * BATCH_SIZE)
    IN  [k \in 1..Max(0, hi - lo + 1) |->
            [customer_id |-> JStr(IF source[lo + k - 1].cid = ""
                                  THEN CustomerIds[lo + k - 1]
                                  ELSE source[lo + k - 1].cid),
             raw_data |-> source[lo + k - 1].raw_data,
             record_date |-> RecordDate,
             db_pan |-> source[lo + k - 1].db_pan,
             db_mobile |-> source[lo + k - 1].db_mobile,
             json_object |-> JNull]]

\* update_state(progress 0)
Start ==
    /\ pc = "start"
    /\ progress' = Append(progress, 0)
    /\ pc' = "connect"
    /\ UNCHANGED <<source, db_ok, cfg_ok, is_url_mode, total_records, num_batches, i,
                   total_fetched, chunk, fetched, r, batch, files, cleaned, output,
                   result, hist, parsevars, mastervars>>

\* get_db_engine and the reading of the configuration.  create_engine opens
\* no connection; get_columns failing is swallowed.  A missing key raises.
Connect ==
    /\ pc = "connect"
    /\ IF cfg_ok THEN pc' = "count" /\ UNCHANGED result
       ELSE Failed("KeyError")
    /\ UNCHANGED <<source, db_ok, cfg_ok, is_url_mode, total_records, num_batches, i,
                   total_fetched, chunk, fetched, r, batch, files, progress, cleaned,
                   output, hist, parsevars, mastervars>>

\* the batch arithmetic without its "if total_records > 0 else 1"
NumBatches_unguarded(total) == CeilDiv(total, BATCH_SIZE)

\* math.ceil(total_records / BATCH_SIZE) if total_records > 0 else 1
NumBatches(total) == IF total > 0 THEN CeilDiv(total, BATCH_SIZE) ELSE 1

\* the COUNT(*) query and the batch arithmetic
Count ==
    /\ pc = "count"
    /\ \E fails \in BOOLEAN :
        /\ ~db_ok => fails
        /\ total_records' = IF fails THEN 0 ELSE Len(source)
        /\ hist' = [hist EXCEPT !.count_failed = fails]
    /\ num_batches' = NumBatches(total_records')
    /\ progress' = Append(progress, 5)
    /\ total_fetched' = 0
    /\ i' = 0
    /\ pc' = IF 0 < num_batches' THEN "read" ELSE "merge"
    /\ UNCHANGED <<source, db_ok, cfg_ok, is_url_mode, chunk, fetched, r, batch, files,
                   cleaned, output, result, parsevars, mastervars>>

\* the handler of a failed page read with "break" in place of "continue"
PageReadFailed_break ==
    /\ i' = i
    /\ pc' = "merge"

\* "except Exception as e: print(...); continue" around the page read
PageReadFailed ==
    /\ i' = i + 1
    /\ pc' = AfterIteration(i + 1)

\* one iteration of the loop up to the download-mode test
ReadPage ==
    /\ pc = "read"
    /\ batch' = EmptyBatch
    /\ \E fails \in BOOLEAN :
        /\ ~db_ok => fails
        /\ IF fails
           THEN /\ PageReadFailed
                /\ hist' = [hist EXCEPT !.pages_failed = @ \cup {i}]
                /\ UNCHANGED <<total_fetched, chunk, fetched, r>>
           ELSE IF Page(i) = <<>>
           THEN \* chunk.empty: break
                /\ pc' = "merge"
                /\ hist' = [hist EXCEPT !.pages_read = @ \cup {i}, !.broke_on_empty = TRUE]
                /\ UNCHANGED <<i, total_fetched, chunk, fetched, r>>
           ELSE /\ total_fetched' = total_fetched + Len(Page(i))
                /\ hist' = [hist EXCEPT !.pages_read = @ \cup {i}]
                /\ r' = 1
                /\ IF is_url_mode
                   THEN /\ chunk' = Page(i)
                        /\ fetched' = [k \in DOMAIN Page(i) |-> Pending]
                        /\ pc' = "fetch"
                   ELSE /\ chunk' = [k \in DOMAIN Page(i) |->
                                        [Page(i)[k] EXCEPT
                                            !.json_object = JStr(Page(i)[k].raw_data)]]
                        /\ fetched' = <<>>
                        /\ pc' = "parse"
                /\ UNCHANGED i
    /\ UNCHANGED <<source, db_ok, cfg_ok, is_url_mode, total_records, num_batches, files,
                   progress, cleaned, output, result, parsevars, mastervars>>

\* one of the gathered fetch_url tasks finishes
FetchResolve ==
    /\ pc = "fetch"
    /\ \E k \in DOMAIN fetched, response \in Responses :
        /\ fetched[k] = Pending
        /\ fetched' = [fetched EXCEPT ![k] = fetch_url(response, chunk[k].raw_data)]
    /\ UNCHANGED <<source, db_ok, cfg_ok, is_url_mode, pc, total_records, num_batches, i,
                   total_fetched, chunk, r, batch, files, progress, cleaned, output,
                   result, hist, parsevars, mastervars>>

\* a gather that hands the results back last task first
FetchGather_reversed ==
    /\ pc = "fetch"
    /\ \A k \in DOMAIN fetched : fetched[k] # Pending
    /\ chunk' = [k \in DOMAIN chunk |->
                    [chunk[k] EXCEPT !.json_object = fetched[Len(fetched) + 1 - k]]]
    /\ pc' = "parse"
    /\ UNCHANGED <<source, db_ok, cfg_ok, is_url_mode, total_records, num_batches, i,
                   total_fetched, fetched, r, batch, files, progress, cleaned, output,
                   result, hist, parsevars, mastervars>>

\* asyncio.gather returns once every task has: the results become the
\* json_object column
FetchGather ==
    /\ pc = "fetch"
    /\ \A k \in DOMAIN fetched : fetched[k] # Pending
    /\ chunk' = [k \in DOMAIN chunk |-> [chunk[k] EXCEPT !.json_object = fetched[k]]]
    /\ pc' = "parse"
    /\ UNCHANGED <<source, db_ok, cfg_ok, is_url_mode, total_records, num_batches, i,
                   total_fetched, fetched, r, batch, files, progress, cleaned, output,
                   result, hist, parsevars, mastervars>>

\* the event loop or the session cannot be set up: the except branch fills
\* the column with None
FetchBatchError ==
    /\ pc = "fetch"
    /\ \A k \in DOMAIN fetched : fetched[k] = Pending
    /\ chunk' = [k \in DOMAIN chunk |-> [chunk[k] EXCEPT !.json_object = JNull]]
    /\ fetched' = [k \in DOMAIN fetched |-> JNull]
    /\ pc' = "parse"
    /\ UNCHANGED <<source, db_ok, cfg_ok, is_url_mode, total_records, num_batches, i,
                   total_fetched, r, batch, files, progress, cleaned, output, result,
                   hist, parsevars, mastervars>>

\* the stamping of the Lead without the DB overrides
stamp_lead_no_override(l, row) ==
    Update(l, "Record_Date" :> JStr(row.record_date) @@ "Source_DB" :> JStr(DbName))

\* the body of "for _, row in chunk.iterrows()" for row r
stamp_lead(l, row) ==
    LET pan == IF row.db_pan # "" THEN "PAN" :> JStr(row.db_pan) ELSE <<>>
        mob == IF row.db_mobile # "" THEN "Mobile" :> JStr(row.db_mobile) ELSE <<>>
    IN  Update(l, pan @@ mob @@ "Record_Date" :> JStr(row.record_date)
                      @@ "Source_DB" :> JStr(DbName))

\* l["PAN"], l["Mobile"] in the building of common
stamp_raises(l) == ~HasKey(l, "PAN") \/ ~HasKey(l, "Mobile")

common_of(l, row) ==
    "Record_Date" :> JStr(row.record_date) @@ "Source_DB" :> JStr(DbName)
    @@ "PAN" :> l.v["PAN"] @@ "Mobile" :> l.v["Mobile"]

accumulate(b, l, res, row) ==
    LET common == common_of(l, row)
        put(x) == Update(x, common)
    IN  [leads |-> Append(b.leads, l),
         loans |-> b.loans \o Map(put, res.loans),
         enqs |-> b.enqs \o Map(put, res.enqs),
         analysis |-> IF generate_analytics_raises(res.loans) THEN b.analysis
                      ELSE Append(b.analysis, put(generate_analytics(l, res.loans)))]

ParseRow ==
    /\ pc = "parse"
    /\ \E row \in {chunk[r]} :
       \E res \in {parse(row.json_object, row.customer_id)} :
       LET next_pc == IF r < Len(chunk) THEN "parse" ELSE "checkpoint"
       IN  IF ~Truthy(res.lead)
           THEN pc' = next_pc /\ r' = r + 1 /\ UNCHANGED <<batch, result, hist>>
           ELSE \E l \in {stamp_lead(res.lead, row)} :
                IF stamp_raises(l)
                THEN /\ Failed("KeyError")
                     /\ hist' = [hist EXCEPT !.key_error = TRUE]
                     /\ batch' = [batch EXCEPT !.leads = Append(@, l)]
                     /\ UNCHANGED r
                ELSE /\ batch' = accumulate(batch, l, res, row)
                     /\ pc' = next_pc
                     /\ r' = r + 1
                     /\ UNCHANGED <<result, hist>>
    /\ UNCHANGED <<source, db_ok, cfg_ok, is_url_mode, total_records, num_batches, i,
                   total_fetched, chunk, fetched, files, progress, cleaned, output,
                   parsevars, mastervars>>

\* the percentage counted from the batches done, on the whole scale
BatchProgress_whole_scale(j, n) == ((j + 1) * 100) \div n

\* prog = 10 + int((i / num_batches) * 60)
BatchProgress(j, n) == 10 + ((j * 60) \div n)

\* the four to_pickle calls and the progress report of batch i
Checkpoint ==
    /\ pc = "checkpoint"
    /\ files' = IF batch = EmptyBatch THEN files ELSE (i :> batch) @@ files
    /\ progress' = Append(progress, BatchProgress(i, num_batches))
    /\ i' = i + 1
    /\ pc' = AfterIteration(i + 1)
    /\ UNCHANGED <<source, db_ok, cfg_ok, is_url_mode, total_records, num_batches,
                   total_fetched, chunk, fetched, r, batch, cleaned, output, result,
                   hist, parsevars, mastervars>>

RECURSIVE Orders(_)
\* the orders in which glob may list a set of files
Orders(S) ==
    IF S = {} THEN {<<>>}
    ELSE UNION {{<<x>> \o q : q \in Orders(S \ {x})} : x \in S}

\* load_merged(prefix) when glob lists the files in this order
load_merged(prefix, order) ==
    Concat([k \in DOMAIN order |-> files[order[k]][prefix]])

FilesOf(prefix) == {j \in DOMAIN files : files[j][prefix] # <<>>}

Ids(leads) == {Get(leads[k], "Customer_ID") : k \in DOMAIN leads}

\* excluded_ids filled from the duplicate Leads only
ExcludedIds_dupes_only(dupe, emp) == Ids(dupe)

\* excluded_ids: the ids of the duplicate and of the employee Leads
ExcludedIds(dupe, emp) == Ids(dupe) \cup Ids(emp)

LoanKeys == <<"Customer_ID", "Account_Number", "Bank_Name">>
EnquiryKeys == <<"Customer_ID", "Date", "Lender", "Amount">>
AnalyticsKeys == <<"Customer_ID">>

\* MERGE and CLEAN
Merge ==
    /\ pc = "merge"
    /\ progress' = Append(progress, 80)
    /\ \E o_leads \in Orders(FilesOf("leads")), o_loans \in Orders(FilesOf("loans")),
          o_enqs \in Orders(FilesOf("enqs")), o_an \in Orders(FilesOf("analysis")) :
        LET all_leads == load_merged("leads", o_leads)
            all_loans == load_merged("loans", o_loans)
            all_enqs == load_merged("enqs", o_enqs)
            all_analysis == load_merged("analysis", o_an)
            pl == process_leads(all_leads)
            valid_ids == Ids(pl.clean)
            excluded_ids == ExcludedIds(pl.dupe, pl.emp)
        IN  cleaned' =
              [all_leads |-> all_leads, all_loans |-> all_loans, all_enqs |-> all_enqs,
               all_analysis |-> all_analysis,
               leads_clean |-> pl.clean, leads_emp |-> pl.emp, leads_dupe |-> pl.dupe,
               loans_clean |-> clean_sub_sheet(all_loans, valid_ids, LoanKeys),
               enqs_clean |-> clean_sub_sheet(all_enqs, valid_ids, EnquiryKeys),
               an_clean |-> clean_sub_sheet(all_analysis, valid_ids, AnalyticsKeys),
               loans_dupe |-> clean_sub_sheet(all_loans, excluded_ids, LoanKeys),
               enqs_dupe |-> clean_sub_sheet(all_enqs, excluded_ids, <<>>),
               an_dupe |-> clean_sub_sheet(all_analysis, excluded_ids, AnalyticsKeys)]
    /\ files' = <<>>
    /\ pc' = "write"
    /\ UNCHANGED <<source, db_ok, cfg_ok, is_url_mode, total_records, num_batches, i,
                   total_fetched, chunk, fetched, r, batch, output, result, hist,
                   parsevars, mastervars>>

\* the result with total_rows counted before CLEAN
CompletedResult_merged_rows(has_data) ==
    [status |-> "Completed", error |-> "",
     total_rows |-> Len(cleaned.all_leads),
     total_fetched |-> total_fetched,
     employees_found |-> IF has_data THEN Len(cleaned.leads_emp) ELSE 0]

\* the two "return {"status": "Completed", ...}" of run_etl_job
CompletedResult(has_data) ==
    [status |-> "Completed", error |-> "",
     total_rows |-> Len(cleaned.leads_clean),
     total_fetched |-> total_fetched,
     employees_found |-> IF has_data THEN Len(cleaned.leads_emp) ELSE 0]

\* WRITING and the return of the result
Write ==
    /\ pc = "write"
    /\ progress' = Append(progress, 90)
    /\ LET has_data == cleaned.leads_dupe # <<>> \/ cleaned.leads_emp # <<>>
       IN  /\ output' = IF has_data THEN {"Clean", "Excluded"} ELSE {"Clean"}
           /\ result' = CompletedResult(has_data)
    /\ pc' = "done"
    /\ UNCHANGED <<source, db_ok, cfg_ok, is_url_mode, total_records, num_batches, i,
                   total_fetched, chunk, fetched, r, batch, files, cleaned, hist,
                   parsevars, mastervars>>

\* stop_job -> cancel_task: revoke(task_id, terminate=True) kills the worker
\* process that runs the task, wherever the task is
Terminal == {"done", "failed", "revoked"}

\* revoke(task_id) without terminate=True: the request is recorded and the
\* running task goes on
cancel_task_no_terminate ==
    /\ pc \notin Terminal
    /\ hist.cancel_pc = "none"
    /\ hist' = [hist EXCEPT !.cancel_pc = pc, !.cancel_i = i, !.cancel_r = r]
    /\ UNCHANGED <<source, db_ok, cfg_ok, is_url_mode, pc, total_records, num_batches, i,
                   total_fetched, chunk, fetched, r, batch, files, progress, cleaned,
                   output, result, parsevars, mastervars>>

cancel_task ==
    /\ pc \notin Terminal
    /\ pc' = "revoked"
    /\ hist' = [hist EXCEPT !.cancel_pc = pc, !.cancel_i = i, !.cancel_r = r]
    /\ UNCHANGED <<source, db_ok, cfg_ok, is_url_mode, total_records, num_batches, i,
                   total_fetched, chunk, fetched, r, batch, files, progress, cleaned,
                   output, result, parsevars, mastervars>>

Next ==
    \/ Start \/ Connect \/ Count \/ ReadPage
    \/ FetchResolve \/ FetchGather \/ FetchBatchError
    \/ ParseRow \/ Checkpoint \/ Merge \/ Write
    \/ cancel_task

Spec == Init /\ [][Next]_vars

\* ------------------------------------------------------------------------
\* A single call of identify_format and of parse on one payload
\* ------------------------------------------------------------------------
\* What a field is replaced by to make it missing or wrongly typed.
Replacements ==
    {JNull, Num(5), JStr("x"), EmptyArr, EmptyObj, JArr(<<Num(5)>>)}

RECURSIVE Damaged(_)
\* the documents that differ from j in one place: a subtree replaced, or a
\* key dropped
Damaged(j) ==
    (Replacements \ {j})
    \cup CASE j.t = "obj" ->
                UNION {{JObj([x \in DOMAIN j.v \ {k} |-> j.v[x]])}
                       \cup {JObj([j.v EXCEPT ![k] = m]) : m \in Damaged(j.v[k])}
                       : k \in DOMAIN j.v}
           [] j.t = "arr" ->
                UNION {{JArr([j.v EXCEPT ![n] = m]) : m \in Damaged(j.v[n])}
                       : n \in DOMAIN j.v}
           [] OTHER -> {}

Documents == {ExperianDoc, TrustellDoc, CplDoc, InternalDoc, UnknownDoc}

\* account types of the tradelines: in the map, matched by a keyword only,
\* matched by two keywords, matched by none
AccountTypes ==
    {JStr(t) : t \in {"Housing Loan", "Overdraft", "  HOME EQUITY ", "Scooter",
                      "Education Card", "Business Credit Card", "Gold Personal",
                      "Carpet Loan", "xyz tractor finance", "x", "",
                      " Loan on Credit Card"}}

\* ExperianDoc with the account type of its tradeline replaced
TypedDoc(t) ==
    JObj([ExperianDoc.v EXCEPT !["xmlJsonResponse"] =
        JObj([@.v EXCEPT !["caisAccount"] =
            JObj([@.v EXCEPT !["caisAccountDetails"] =
                JArr(<<JObj([ExperianLoan.v EXCEPT !["accountType"] = t])>>)])])])

TypedDocuments == {TypedDoc(t) : t \in AccountTypes}

Texts ==
    {JStr(t) : t \in {"T_EXPERIAN", "T_TRUSTELL", "T_CPL", "T_INTERNAL", "T_UNKNOWN",
                      "T_ARRAY", "T_EXPERIAN_TWICE", "T_EXPERIAN_QUOTED", "null", "[]", "{}", "760",
                      "{bad", "", "x"}}

Arrays ==
    {EmptyArr, JArr(<<EmptyArr>>), JArr(<<EmptyObj>>), JArr(<<JStr("{bad")>>),
     JArr(<<JArr(<<ExperianDoc>>)>>), JArr(<<UnknownDoc, TrustellDoc>>),
     JArr(<<JStr("T_CPL"), JNull>>), JArr(<<JNull, JStr("T_TRUSTELL")>>)}

Payloads ==
    Documents \cup UNION {Damaged(d) : d \in Documents} \cup Texts \cup Arrays
    \cup {JNull, Num(0), Num(760)} \cup TypedDocuments

ParseInit ==
    /\ p_in \in Payloads
    /\ p_pc = "input" /\ p_tag = "" /\ p_out = Absent /\ p_ret = JNull
    /\ source = <<>> /\ db_ok = TRUE /\ cfg_ok = TRUE /\ is_url_mode = FALSE
    /\ JobIdle
    /\ MasterIdle /\ NoMasterFiles

Identify ==
    /\ p_pc = "input"
    /\ p_tag' = identify_format(p_in)
    /\ p_pc' = "identified"
    /\ UNCHANGED <<p_in, p_out, p_ret, jobvars, mastervars>>

ParseCall ==
    /\ p_pc = "identified"
    /\ p_out' = parse(p_in, JStr("C1"))
    /\ p_pc' = "parsed"
    /\ UNCHANGED <<p_in, p_tag, p_ret, jobvars, mastervars>>

\* the scores get_score_band is called with
Scores ==
    {Num(900), Num(750), JNum(74999), Num(700), JNum(69999), Num(650), JNum(64999),
     Num(300), Num(299), JNum(29999), Num(0), JNum(0 - 100),
     JStr("760"), JStr("12.50"), JStr("N/A"), JStr("1.5.2"), JStr(""),
     JNull, EmptyObj, EmptyArr}

\* EnrichmentEngine.get_score_band(score)
ScoreBandCall ==
    /\ p_pc = "input"
    /\ \E score \in Scores :
        /\ p_in' = score
        /\ p_ret' = JStr(get_score_band(score))
    /\ p_pc' = "banded"
    /\ UNCHANGED <<p_tag, p_out, jobvars, mastervars>>

\* the values get_standard_category is called with
RawTypes == AccountTypes \cup Replacements \cup {JStr("None"), JStr("Other")}

\* EnrichmentEngine.get_standard_category(raw_type)
CategoryCall ==
    /\ p_pc = "input"
    /\ \E raw_type \in RawTypes :
        /\ p_in' = raw_type
        /\ p_ret' = JStr(get_standard_category(raw_type))
    /\ p_pc' = "categorised"
    /\ UNCHANGED <<p_tag, p_out, jobvars, mastervars>>

\* the values _clean_numeric is called with
NumericInputs ==
    {JStr("₹1,23,456.50"), JStr("12.50"), JStr("760"), JStr("N/A"), JStr("1.5.2"),
     JStr("-5"), JStr("  42 "), JStr("   "), JStr("."), JStr("5."), JStr(""),
     JNull, Num(1000), JNum(1250), JNum(1205), JNum(0 - 250), Num(0),
     EmptyObj, EmptyArr, JArr(<<Num(5)>>)}

\* _clean_numeric(value)
CleanNumericCall ==
    /\ p_pc = "input"
    /\ \E value \in NumericInputs :
        /\ p_in' = value
        /\ p_ret' = _clean_numeric(value)
    /\ p_pc' = "cleaned"
    /\ UNCHANGED <<p_tag, p_out, jobvars, mastervars>>

MaxLoans == 2

\* the loans generate_analytics is called with: of a category of the dict,
\* of another, of None, of none; with a lender's name and without
AnalyticsLoans ==
    {JObj(cat @@ bank) :
        cat \in {"Mapped_Category" :> JStr("Home_Loans"),
                 "Mapped_Category" :> JStr("Credit_Cards"),
                 "Mapped_Category" :> JStr("Scooter_Loans"),
                 "Mapped_Category" :> JNull, <<>>},
        bank \in {"Bank_Name" :> JStr("HDFC"), "Bank_Name" :> JNull}}
    \cup {JObj("Mapped_Category" :> JStr("Home_Loans") @@ "Bank_Name" :> JStr("HDFC")
                @@ "Status" :> JStr("Reopened") @@ "EMI_Amount" :> Num(1000)),
          JObj("Mapped_Category" :> JStr("Credit_Cards") @@ "Bank_Name" :> JStr("SBI")
                @@ "Status" :> JStr("Closed") @@ "EMI_Amount" :> Num(500)),
          JObj("Bank_Name" :> JStr("HDFC") @@ "Status" :> JStr("ACTIVE")
                @@ "EMI_Amount" :> JNum(1250)),
          JObj("Mapped_Category" :> JStr("Scooter_Loans") @@ "Status" :> JStr("Inactive")
                @@ "EMI_Amount" :> Num(300))}

\* what a call that raised leaves in place of its result
Raised == [t |-> "exc", v |-> "TypeError"]

\* InsightEngine.generate_analytics(lead_info, loans)
AnalyticsCall ==
    /\ p_pc = "input"
    /\ \E lead_info \in {JNull, EmptyObj, JObj("Customer_ID" :> JStr("C1"))},
          loans \in SeqsUpTo(AnalyticsLoans, MaxLoans) :
        /\ p_in' = JArr(<<lead_info, JArr(loans)>>)
        /\ p_ret' = IF Truthy(lead_info) /\ generate_analytics_raises(loans) THEN Raised
                    ELSE generate_analytics(lead_info, loans)
    /\ p_pc' = "analysed"
    /\ UNCHANGED <<p_tag, p_out, jobvars, mastervars>>

ParseNext ==
    \/ Identify \/ ParseCall
    \/ ScoreBandCall \/ CategoryCall \/ CleanNumericCall \/ AnalyticsCall

ParseSpec == ParseInit /\ [][ParseNext]_vars

\* ------------------------------------------------------------------------
\* EnrichmentEngine: the reference tables and their lookups.  The keys of
\* the tables are kept as their characters.
\* ------------------------------------------------------------------------
RECURSIVE Strip(_)
\* str.strip()
Strip(cs) ==
    IF cs = <<>> THEN cs
    ELSE IF Head(cs) = " " THEN Strip(Tail(cs))
    ELSE IF cs[Len(cs)] = " " THEN Strip(SubSeq(cs, 1, Len(cs) - 1))
    ELSE cs

\* str.split(".")[0]
BeforePoint(cs) ==
    LET dots == {k \in DOMAIN cs : cs[k] = "."}
    IN  IF dots = {} THEN cs
        ELSE SubSeq(cs, 1, (CHOOSE k \in dots : \A d \in dots : k <= d) - 1)

\* .str.replace(r"\.0$", "", regex=True)
WithoutTrailingPointZero(cs) ==
    IF Len(cs) >= 2 /\ cs[Len(cs) - 1] = "." /\ cs[Len(cs)] = "0"
    THEN SubSeq(cs, 1, Len(cs) - 2)
    ELSE cs

RECURSIVE ReplacePointZero(_)
\* str.replace(".0", ""): every occurrence, from the left
ReplacePointZero(cs) ==
    IF Len(cs) < 2 THEN cs
    ELSE IF cs[1] = "." /\ cs[2] = "0" THEN ReplacePointZero(SubSeq(cs, 3, Len(cs)))
    ELSE <<Head(cs)>> \o ReplacePointZero(Tail(cs))

\* the rows of data/pincode_master.csv
PincodeRows ==
    <<[Pincode |-> "110001", City |-> "New Delhi", State |-> "Delhi"],
      [Pincode |-> "560001.0", City |-> "Bengaluru", State |-> "Karnataka"],
      [Pincode |-> " 400001 ", City |-> "Mumbai", State |-> "Goa"]>>

\* the Mobile column of data/employee_master.xlsx, without its empty cells
EmployeeRows == <<"M1.0", " M2 ", "M15">>

\* load_masters on the attributes st; an exception raised by pandas leaves
\* what was assigned before it
load_masters(st) ==
    IF st.is_loaded THEN st
    ELSE
    LET pc_of(k) == Strip(BeforePoint(Chars(PincodeRows[k].Pincode)))
        loaded == [code \in {pc_of(k) : k \in DOMAIN PincodeRows} |->
                      LET k == CHOOSE k \in DOMAIN PincodeRows :
                                   /\ pc_of(k) = code
                                   /\ \A n \in DOMAIN PincodeRows : pc_of(n) = code => n <= k
                      IN  [City |-> PincodeRows[k].City, State |-> PincodeRows[k].State]]
        pincodes ==
            [st EXCEPT !.reads.pincode = @ + (IF pincode_file = "absent" THEN 0 ELSE 1),
                       !.pincode_cache = IF pincode_file = "ok" THEN loaded @@ @ ELSE @]
        employees ==
            [pincodes EXCEPT
                !.reads.employee = @ + (IF employee_file = "absent" THEN 0 ELSE 1),
                !.employee_cache =
                    IF employee_file = "ok"
                    THEN {WithoutTrailingPointZero(Strip(Chars(EmployeeRows[k]))) :
                              k \in DOMAIN EmployeeRows}
                    ELSE @]
    IN  IF pincode_file = "broken" THEN pincodes
        ELSE IF employee_file = "broken" THEN employees
        ELSE [employees EXCEPT !.is_loaded = TRUE]

\* get_location on the loaded attributes: (city, state, zone)
get_location(st, pincode) ==
    LET ZONE_MAP == ("Delhi" :> "North") @@ ("Karnataka" :> "South")
        code == Strip(BeforePoint(Chars(PyStr(pincode).v)))
        known == code \in DOMAIN st.pincode_cache
        city == IF known THEN st.pincode_cache[code].City ELSE ""
        state == IF known THEN st.pincode_cache[code].State ELSE ""
        zone == IF state \in DOMAIN ZONE_MAP THEN ZONE_MAP[state] ELSE "Unknown"
    IN  <<city, state, zone>>

\* is_employee on the loaded attributes
is_employee(st, mobile) ==
    IF ~Truthy(mobile) THEN FALSE
    ELSE ReplacePointZero(Strip(Chars(PyStr(mobile).v))) \in st.employee_cache

\* ------------------------------------------------------------------------
\* Calls of EnrichmentEngine in one process
\* ------------------------------------------------------------------------
MaxCalls == 3

MasterInit ==
    /\ pincode_file \in {"absent", "ok", "broken"}
    /\ employee_file \in {"absent", "ok", "no_column", "broken"}
    /\ MasterIdle
    /\ source = <<>> /\ db_ok = TRUE /\ cfg_ok = TRUE /\ is_url_mode = FALSE
    /\ JobIdle
    /\ ParseIdle

Attributes ==
    [is_loaded |-> is_loaded, pincode_cache |-> pincode_cache,
     employee_cache |-> employee_cache, reads |-> reads]

\* a call that leaves the attributes st and returns ret
MasterCall(st, ret) ==
    /\ m_calls < MaxCalls
    /\ m_calls' = m_calls + 1
    /\ is_loaded' = st.is_loaded
    /\ pincode_cache' = st.pincode_cache
    /\ employee_cache' = st.employee_cache
    /\ reads' = st.reads
    /\ m_ret' = ret
    /\ m_first' = IF m_calls = 0 THEN <<st.pincode_cache, st.employee_cache>> ELSE m_first
    /\ UNCHANGED <<pincode_file, employee_file, jobvars, parsevars>>

\* EnrichmentEngine.load_masters()
LoadMastersCall ==
    MasterCall(load_masters(Attributes), [fn |-> "load_masters", arg |-> JNull, val |-> JNull])

\* EnrichmentEngine.get_location(pincode)
GetLocationCall ==
    \E pincode \in {JStr("110001"), JStr("560001"), JStr("560001.0"), JStr("400001"),
                    JStr("x"), JNull} :
        \E st \in {load_masters(Attributes)} :
            MasterCall(st, [fn |-> "get_location", arg |-> pincode,
                            val |-> get_location(st, pincode)])

\* EnrichmentEngine.is_employee(mobile)
IsEmployeeCall ==
    \E mobile \in {JStr("M1"), JStr("M1.0"), JStr(" M2 "), JStr("M1.05"), JStr("M15"),
                   JStr("M3"), JStr(""), JNull} :
        \E st \in {load_masters(Attributes)} :
            MasterCall(st, [fn |-> "is_employee", arg |-> mobile,
                            val |-> is_employee(st, mobile)])

MasterNext == LoadMastersCall \/ GetLocationCall \/ IsEmployeeCall

MasterSpec == MasterInit /\ [][MasterNext]_vars

\* ------------------------------------------------------------------------
\* Properties of run_etl_job (specification Spec)
\* ------------------------------------------------------------------------
\* the customer ids of the rows of page j
PageIds(j) == {Page(j)[k].customer_id : k \in DOMAIN Page(j)}

\* every row goes by the id of its place in the table: no two rows share one
OwnIds == \A k \in DOMAIN source : source[k].cid = ""

\* the source rows returned by the pages that were read
RowsOfReadPages ==
    {k \in 1..Len(source) : ((k - 1) \div BATCH_SIZE) \in hist.pages_read}

\* every record the job holds: in the batch lists, in the checkpoints, in
\* the cleaned frames
Range(q) == {q[k] : k \in DOMAIN q}
HeldRecords ==
    Range(batch.leads) \cup Range(batch.loans) \cup Range(batch.enqs)
    \cup Range(batch.analysis)
    \cup UNION {Range(files[j].leads) \cup Range(files[j].loans) \cup Range(files[j].enqs)
                \cup Range(files[j].analysis) : j \in DOMAIN files}
    \cup UNION {Range(cleaned[f]) : f \in DOMAIN cleaned}

\* the Leads of the workbooks the job has written
DeliveredLeads ==
    IF output = {} THEN {}
    ELSE Range(cleaned.leads_clean) \cup Range(cleaned.leads_emp) \cup Range(cleaned.leads_dupe)

DeliveredSubRecords ==
    IF output = {} THEN {}
    ELSE Range(cleaned.loans_clean) \cup Range(cleaned.enqs_clean)
         \cup Range(cleaned.loans_dupe) \cup Range(cleaned.enqs_dupe)

\* the sentinel fetch_url returns for a request that failed
IsSentinel(j) == IsDict(j) /\ HasKey(j, "error") /\ HasKey(j, "url")

\* C1: no error of a single row or of a single page read ends the job in
\* the Failed state; only a connection error or a malformed configuration
\* produces {status: "Failed"}.
C1_OnlyFatalErrorsFail ==
    pc = "failed" => (~cfg_ok \/ ~db_ok)

\* C2: a job over a source that holds an UNKNOWN_FALLBACK row without a
\* PAN/Mobile override, in which nothing else goes wrong, completes, counts
\* every row in total_fetched, and delivers that row's Lead with Source
\* "Unknown" and no Loans or Enquiries.
UnknownRows == {k \in DOMAIN source : source[k] = Kind("T_UNKNOWN", "", "")}
C2_UnknownRowCompletes ==
    ( /\ pc \in {"done", "failed"}
      /\ cfg_ok /\ ~is_url_mode /\ ~hist.count_failed /\ hist.pages_failed = {}
      /\ UnknownRows # {} )
    => /\ result.status = "Completed"
       /\ result.total_fetched = Len(source)
       /\ \A k \in UnknownRows :
            /\ \E l \in DeliveredLeads :
                 /\ Get(l, "Customer_ID") = JStr(CustomerIds[k])
                 /\ Get(l, "Source") = JStr("Unknown")
            /\ \A x \in DeliveredSubRecords : Get(x, "Customer_ID") # JStr(CustomerIds[k])

\* the cancel request arrived between batch 1 and batch 2 of a 3-batch job
\* (batches are numbered from 1 in the prose, from 0 in the loop)
CancelledAfterBatch1Of3 ==
    /\ hist.cancel_pc = "read" /\ hist.cancel_i = 1
    /\ num_batches = 3 /\ 0 \in hist.pages_read

C5_ConnectionFailureIsFatal ==
    ~db_ok => /\ pc \in {"start", "connect", "count", "failed", "revoked"}
              /\ result.status # "Completed"

\* C6: a failed count query does not fail the job: total_records is 0, one
\* batch is planned, the loop is entered, and the job fails only if a row
\* does.
C6_CountFailureDegrades ==
    hist.count_failed =>
        /\ total_records = 0 /\ num_batches = 1
        /\ pc # "count"
        /\ (pc = "failed" => hist.key_error)
        /\ (pc \in {"merge", "write", "done"} => 0 \in hist.pages_read \cup hist.pages_failed)
        /\ (pc = "done" => result.status = "Completed")

C6_Witness ==
    /\ hist.count_failed /\ pc = "done"
    /\ result.status = "Completed" /\ result.total_fetched > 0 /\ result.total_rows > 0

\* C7: a page whose read failed contributes no record and nothing to
\* total_fetched, every page of the plan is still attempted, and the job
\* fails only if the configuration or a row does.
C7_FailedPageIsSkipped ==
    /\ OwnIds =>
         \A j \in hist.pages_failed :
             \A x \in HeldRecords : Get(x, "Customer_ID") \notin PageIds(j)
    /\ total_fetched = Cardinality(RowsOfReadPages)
    /\ (pc \in {"merge", "write", "done"}
            => hist.pages_read \cup hist.pages_failed = 0..(num_batches - 1))
    /\ (pc = "failed" => hist.key_error \/ ~cfg_ok)

C7_Witness ==
    /\ pc = "done" /\ result.status = "Completed"
    /\ hist.pages_failed = {0} /\ hist.pages_read = {1, 2}
    /\ result.total_fetched = Len(source) - BATCH_SIZE /\ result.total_rows > 0

\* C8: in URL mode the failure of one row's request never keeps the job
\* from parsing the rest of the batch: the job never fails on a row whose
\* payload is the sentinel of a failed request.
C8_FetchFailureNeverStopsBatch ==
    (is_url_mode /\ pc = "failed" /\ cfg_ok) => ~IsSentinel(chunk[r].json_object)

\* ------------------------------------------------------------------------
\* Properties of identify_format and parse (specification ParseSpec)
\* ------------------------------------------------------------------------
\* the payload after parse's and identify_format's json.loads
Decode(j) == IF IsStr(j) /\ json_loads(j.v).ok THEN json_loads(j.v).val ELSE j
Undecodable(j) == IsStr(j) /\ ~json_loads(j.v).ok

\* C9: parse returns a present Lead for every payload that is a non-empty
\* JSON object, whatever fields it lacks or mistypes.
C9_ObjectPayloadYieldsLead ==
    (p_pc = "parsed" /\ ~Undecodable(p_in) /\ IsDict(Decode(p_in)) /\ Truthy(Decode(p_in)))
        => Truthy(p_out.lead)

\* C10: identify_format returns one of the six tags for every payload, the
\* tag being a function of the payload alone; a text that does not decode
\* is INVALID_JSON, an empty array is UNKNOWN_FALLBACK, and a non-empty
\* array has the tag of its first element.
C10_IdentifyFormatTotal ==
    p_pc \in {"identified", "parsed"} =>
        /\ p_tag \in Tags
        /\ (Undecodable(p_in) => p_tag = "INVALID_JSON")
        /\ (Decode(p_in) = EmptyArr => p_tag = "UNKNOWN_FALLBACK")
        /\ (~Undecodable(p_in) /\ IsList(Decode(p_in)) /\ Decode(p_in) # EmptyArr
                => p_tag = identify_format(Decode(p_in).v[1]))
        /\ (p_in = JArr(<<UnknownDoc, TrustellDoc>>) => p_tag = "UNKNOWN_FALLBACK")

C10_Witness ==
    /\ p_pc = "identified"
    /\ p_in = JArr(<<JArr(<<ExperianDoc>>)>>)
    /\ p_tag = "EXPERIAN_RAW"

\* ------------------------------------------------------------------------
\* Properties of MERGE and CLEAN (specification Spec)
\* ------------------------------------------------------------------------
Cleaned == pc \in {"write", "done"}

\* every row has a customer id of its own, so a record names its row
RowOf(x) == CHOOSE k \in DOMAIN CustomerIds : JStr(CustomerIds[k]) = Get(x, "Customer_ID")

\* C11: the Lead sequence handed to the cleaner is in the order the rows
\* were read, and of the non-employee Leads that share a dedup key the one
\* of the earliest row is in the clean set and the others are in the
\* duplicate set.
C11_FirstSeenBySourceOrder ==
    (Cleaned /\ OwnIds) =>
        /\ \A p, q \in DOMAIN cleaned.all_leads :
             p < q => RowOf(cleaned.all_leads[p]) < RowOf(cleaned.all_leads[q])
        /\ \A a, b \in Range(cleaned.all_leads) :
             ( /\ ~is_employee_lead(a) /\ ~is_employee_lead(b)
               /\ dedup_key(a) = dedup_key(b) /\ RowOf(a) < RowOf(b) )
             => /\ b \in Range(cleaned.leads_dupe)
                /\ (\A c \in Range(cleaned.all_leads) :
                        (~is_employee_lead(c) /\ dedup_key(c) = dedup_key(a))
                            => RowOf(a) <= RowOf(c))
                   => a \in Range(cleaned.leads_clean)

\* the values of the key columns of a record
KeyOf(x, keys) == [n \in DOMAIN keys |-> Get(x, keys[n])]
\* no two records of the sequence share the key
NoTwoShare(q, keys) ==
    \A m, n \in DOMAIN q : m < n => KeyOf(q[m], keys) # KeyOf(q[n], keys)

\* C12: in the clean and in the excluded output no two Loans share
\* (Customer_ID, Account_Number, Bank_Name), no two Enquiries share
\* (Customer_ID, Date, Lender, Amount) and no two AnalyticsRows share
\* Customer_ID.
C12_SubRecordsDeduplicated ==
    Cleaned =>
        /\ NoTwoShare(cleaned.loans_clean, LoanKeys)
        /\ NoTwoShare(cleaned.enqs_clean, EnquiryKeys)
        /\ NoTwoShare(cleaned.an_clean, AnalyticsKeys)
        /\ NoTwoShare(cleaned.loans_dupe, LoanKeys)
        /\ NoTwoShare(cleaned.enqs_dupe, EnquiryKeys)
        /\ NoTwoShare(cleaned.an_dupe, AnalyticsKeys)

\* C13: no Loan, Enquiry or AnalyticsRow is both in the clean and in the
\* excluded output.
C13_CleanAndExcludedDisjoint ==
    Cleaned =>
        /\ Range(cleaned.loans_clean) \cap Range(cleaned.loans_dupe) = {}
        /\ Range(cleaned.enqs_clean) \cap Range(cleaned.enqs_dupe) = {}
        /\ Range(cleaned.an_clean) \cap Range(cleaned.an_dupe) = {}

\* the sub-records of a group of lists carry the id of one of its Leads
IdsConsistent(b) ==
    \A x \in Range(b.loans) \cup Range(b.enqs) \cup Range(b.analysis) :
        Get(x, "Customer_ID") \in Ids(b.leads)

\* a record with the key of x is in one of the two outputs
Placed(x, keys, clean, excluded) ==
    \E y \in Range(clean) \cup Range(excluded) : KeyOf(y, keys) = KeyOf(x, keys)

\* C14: every Loan, Enquiry and AnalyticsRow of the batch lists and of the
\* checkpoints carries the Customer_ID of a Lead of the same batch, and
\* after CLEAN every merged sub-record has its id in the clean or in the
\* excluded id set and is represented in the clean or the excluded output.
C14_NoSubRecordDropped ==
    /\ IdsConsistent(batch)
    /\ \A j \in DOMAIN files : IdsConsistent(files[j])
    /\ Cleaned =>
         /\ \A x \in Range(cleaned.all_loans) \cup Range(cleaned.all_enqs)
                       \cup Range(cleaned.all_analysis) :
                Get(x, "Customer_ID") \in Ids(cleaned.leads_clean)
                    \cup Ids(cleaned.leads_dupe) \cup Ids(cleaned.leads_emp)
         /\ \A x \in Range(cleaned.all_loans) :
                Placed(x, LoanKeys, cleaned.loans_clean, cleaned.loans_dupe)
         /\ \A x \in Range(cleaned.all_enqs) :
                Placed(x, EnquiryKeys, cleaned.enqs_clean, cleaned.enqs_dupe)
         /\ \A x \in Range(cleaned.all_analysis) :
                Placed(x, AnalyticsKeys, cleaned.an_clean, cleaned.an_dupe)

C14_Witness ==
    /\ pc = "done"
    /\ cleaned.leads_emp # <<>> /\ cleaned.leads_dupe # <<>> /\ cleaned.leads_clean # <<>>
    /\ \E x \in Range(cleaned.loans_dupe) :
           Get(x, "Customer_ID") \in Ids(cleaned.leads_emp)
    /\ \E x \in Range(cleaned.loans_clean) : TRUE

\* ------------------------------------------------------------------------
\* Properties of the progress reports and of the result
\* ------------------------------------------------------------------------
\* C15: the progress values pushed through update_state never decrease and
\* every one of them lies in 0..100, whatever the number of batches, with
\* failed page reads and with a loop ended by an empty page.
C15_ProgressMonotone ==
    \A k \in DOMAIN progress :
        /\ progress[k] \in 0..100
        /\ k > 1 => progress[k - 1] <= progress[k]

C15_Witness ==
    /\ pc = "done"
    /\ num_batches >= 2
    /\ hist.pages_failed # {} /\ hist.pages_read # {}
    /\ Len(progress) >= 5

\* C16: a "Completed" result reports total_fetched, the number of rows of
\* the pages read, total_rows, the number of clean Leads, with
\* total_rows <= total_fetched, and employees_found, the number of Leads
\* routed to the employee set.
C16_CompletedResultCounts ==
    result.status = "Completed" =>
        /\ result.total_fetched = Cardinality(RowsOfReadPages)
        /\ result.total_rows = Len(cleaned.leads_clean)
        /\ result.total_rows <= result.total_fetched
        /\ result.employees_found = Len(cleaned.leads_emp)

C16_Witness ==
    /\ result.status = "Completed"
    /\ hist.pages_failed # {}
    /\ 0 < result.total_rows /\ result.total_rows < result.total_fetched
    /\ result.employees_found > 0

\* ------------------------------------------------------------------------
\* Properties of the enrichment helpers (specification ParseSpec)
\* ------------------------------------------------------------------------
\* the number a score stands for, in hundredths; NoNumber for a missing or
\* non-numeric score
NoNumber == 0 - 1000000
ScoreNumber(x) ==
    CASE x.t = "num" -> x.v
      [] x = JStr("760") -> 76000
      [] x = JStr("720") -> 72000
      [] x = JStr("680") -> 68000
      [] x = JStr("12.50") -> 1250
      [] OTHER -> NoNumber

Bands == {"750+", "700-749", "650-699", "300-649", "Zero/No Score"}

\* band b applies to a score that stands for n hundredths
BandApplies(b, n) ==
    CASE b = "750+" -> n # NoNumber /\ n >= 75000
      [] b = "700-749" -> n # NoNumber /\ 70000 <= n /\ n < 75000
      [] b = "650-699" -> n # NoNumber /\ 65000 <= n /\ n < 70000
      [] b = "300-649" -> n # NoNumber /\ 30000 <= n /\ n < 65000
      [] b = "Zero/No Score" -> n = NoNumber \/ n < 30000

\* the score of a call and the band it was given
BandedScores ==
    IF p_pc = "banded" THEN {<<p_in, p_ret>>}
    ELSE IF p_pc = "parsed" /\ Truthy(p_out.lead)
    THEN {<<GetD(p_out.lead, "CIBIL_Score", JNull), Get(p_out.lead, "CIBIL_Band")>>}
    ELSE {}

\* C17: CIBIL_Band is a function of CIBIL_Score alone: the band of every
\* Lead parse returns, and of every score get_score_band is called with, is
\* the one of the five bands whose interval holds the score ("Zero/No
\* Score" for a score under 300, missing or non-numeric), and exactly one
\* band applies to every score.
C17_BandIsFunctionOfScore ==
    \A sb \in BandedScores :
        /\ sb[2].t = "str" /\ sb[2].v \in Bands
        /\ BandApplies(sb[2].v, ScoreNumber(sb[1]))
        /\ Cardinality({b \in Bands : BandApplies(b, ScoreNumber(sb[1]))}) = 1

C17_Witness ==
    /\ p_pc = "banded"
    /\ p_in = JNum(74999)
    /\ p_ret = JStr("700-749")

Buckets ==
    {"Home_Loans", "Auto_Loans", "Education_Loans", "Gold_Loans", "Personal_Loans",
     "Credit_Cards", "Business_Loans", "Other_Loans"}

\* the bucket the account types of the examples belong to
ExpectedCategory ==
    (JStr("Housing Loan") :> "Home_Loans") @@ (JStr("xyz tractor finance") :> "Auto_Loans")
    @@ (JStr("Scooter") :> "Other_Loans") @@ (JStr("x") :> "Other_Loans")
    @@ (JStr("") :> "Other_Loans") @@ (JNull :> "Other_Loans")
    @@ (JStr("Education Card") :> "Education_Loans")
    @@ (JStr("Business Credit Card") :> "Credit_Cards")

\* the raw account type of a call and the category it was given
Categorised ==
    IF p_pc = "categorised" THEN {<<p_in, p_ret>>}
    ELSE IF p_pc = "parsed" /\ Truthy(p_out.lead)
    THEN {<<Get(p_out.loans[k], "Account_Type_Category"),
            Get(p_out.loans[k], "Mapped_Category")>> : k \in DOMAIN p_out.loans}
    ELSE {}

\* C18: every Loan parse returns with a present Lead has a Mapped_Category,
\* one of the 8 buckets, for every raw account type: missing, empty, matched
\* by a keyword only ("xyz tractor finance" is Auto_Loans) and unmappable
\* (Other_Loans).
C18_MappedCategoryInBuckets ==
    \A rc \in Categorised :
        /\ rc[2].t = "str" /\ rc[2].v \in Buckets
        /\ rc[1] \in DOMAIN ExpectedCategory => rc[2].v = ExpectedCategory[rc[1]]

C18_Witness ==
    /\ p_pc = "parsed"
    /\ p_in = TypedDoc(JStr("xyz tractor finance"))
    /\ Truthy(p_out.lead)
    /\ Len(p_out.loans) = 1
    /\ Get(p_out.loans[1], "Mapped_Category") = JStr("Auto_Loans")

\* the number, in hundredths, that the digits and decimal points of an
\* input spell; 0 where they spell none
SpelledNumber ==
    (JStr("₹1,23,456.50") :> 12345650) @@ (JStr("12.50") :> 1250)
    @@ (JStr("760") :> 76000) @@ (JStr("N/A") :> 0) @@ (JStr("1.5.2") :> 0)
    @@ (JStr("-5") :> 500) @@ (JStr("  42 ") :> 4200) @@ (JStr("   ") :> 0)
    @@ (JStr(".") :> 0) @@ (JStr("5.") :> 500) @@ (JStr("") :> 0) @@ (JNull :> 0)
    @@ (Num(1000) :> 100000) @@ (JNum(1250) :> 1250) @@ (JNum(1205) :> 1205)
    @@ (JNum(0 - 250) :> 250) @@ (Num(0) :> 0) @@ (EmptyObj :> 0) @@ (EmptyArr :> 0)
    @@ (JArr(<<Num(5)>>) :> 500)

\* the numbers _clean_numeric has returned: of a direct call, and the
\* score and the instalments of a parsed document
CleanedNumbers ==
    IF p_pc = "cleaned" THEN {p_ret}
    ELSE IF p_pc = "parsed" /\ Truthy(p_out.lead)
    THEN (IF HasKey(p_out.lead, "CIBIL_Score") THEN {Get(p_out.lead, "CIBIL_Score")} ELSE {})
         \cup {Get(p_out.loans[k], "EMI_Amount") : k \in DOMAIN p_out.loans}
    ELSE {}

\* C19: _clean_numeric returns for every input the number its digits and
\* decimal points spell once every other character is stripped, 0 for None,
\* for an empty input and for one that leaves nothing parseable, and never
\* a negative number.
C19_CleanNumericSpelledNumber ==
    /\ \A n \in CleanedNumbers : n.t = "num" /\ n.v >= 0
    /\ p_pc = "cleaned" =>
         /\ p_in \in DOMAIN SpelledNumber
         /\ p_ret = JNum(SpelledNumber[p_in])

C19_Witness ==
    /\ p_pc = "cleaned"
    /\ p_in = JStr("₹1,23,456.50")
    /\ p_ret = JNum(12345650)

\* the bucket a loan belongs to: the one its Mapped_Category names when
\* that is one of the 8, Other_Loans otherwise
BucketOf(loan) ==
    IF HasKey(loan, "Mapped_Category") /\ Get(loan, "Mapped_Category").t = "str"
       /\ Get(loan, "Mapped_Category").v \in Buckets
    THEN Get(loan, "Mapped_Category").v
    ELSE "Other_Loans"

CountName ==
    [b \in Buckets |->
        CASE b = "Home_Loans" -> "Home_Count" [] b = "Auto_Loans" -> "Auto_Count"
          [] b = "Education_Loans" -> "Education_Count" [] b = "Gold_Loans" -> "Gold_Count"
          [] b = "Personal_Loans" -> "Personal_Count" [] b = "Credit_Cards" -> "Credit_Count"
          [] b = "Business_Loans" -> "Business_Count" [] b = "Other_Loans" -> "Other_Count"]

RECURSIVE SumOf(_, _)
SumOf(f, S) ==
    IF S = {} THEN 0 ELSE LET x == CHOOSE x \in S : TRUE IN f[x] + SumOf(f, S \ {x})

\* C20: generate_analytics counts each loan in exactly one bucket, the one
\* its Mapped_Category names when that is one of the 8 and Other_Loans
\* otherwise, so that the eight counts sum to the number of loans, for
\* every list of loans and a present Lead; for an absent Lead it returns the
\* empty mapping.
C20_AnalyticsPartitionsLoans ==
    p_pc = "analysed" =>
        LET lead_info == p_in.v[1]
            loans == p_in.v[2].v
        IN  IF ~Truthy(lead_info) THEN p_ret = EmptyObj
            ELSE /\ p_ret.t = "obj"
                 /\ \A b \in Buckets :
                        /\ HasKey(p_ret, CountName[b])
                        /\ Get(p_ret, CountName[b])
                             = Num(Cardinality({k \in DOMAIN loans : BucketOf(loans[k]) = b}))
                 /\ SumOf([b \in Buckets |-> Get(p_ret, CountName[b]).v], Buckets)
                        = Len(loans) * Scale

\* the same for the calls whose loans all name their lender
C20_PartitionWhenLendersNamed ==
    (p_pc = "analysed" /\ p_ret # Raised) => C20_AnalyticsPartitionsLoans

\* the characters of the lower-cased status texts
StatusLetters(s) ==
    CASE s = "Active" -> <<"a", "c", "t", "i", "v", "e">>
      [] s = "ACTIVE" -> <<"a", "c", "t", "i", "v", "e">>
      [] s = "Inactive" -> <<"i", "n", "a", "c", "t", "i", "v", "e">>
      [] s = "Open" -> <<"o", "p", "e", "n">>
      [] s = "Reopened" -> <<"r", "e", "o", "p", "e", "n", "e", "d">>
      [] s = "Live" -> <<"l", "i", "v", "e">>
      [] s = "Closed" -> <<"c", "l", "o", "s", "e", "d">>
      [] OTHER -> <<>>

Occurs(word, text) ==
    \E k \in 1..(Len(text) - Len(word) + 1) : SubSeq(text, k, k + Len(word) - 1) = word

\* the Status of a loan holds "open", "active" or "live", whatever the case
HoldsActiveWord(loan) ==
    /\ HasKey(loan, "Status") /\ Get(loan, "Status").t = "str"
    /\ \E w \in {<<"o", "p", "e", "n">>, <<"a", "c", "t", "i", "v", "e">>,
                 <<"l", "i", "v", "e">>} :
           Occurs(w, StatusLetters(Get(loan, "Status").v))

EmiOf(loan) == IF HasKey(loan, "EMI_Amount") THEN Get(loan, "EMI_Amount").v ELSE 0

\* C21: generate_analytics returns, for every Lead and list of loans,
\* Total_EMI_Obligation, the sum of EMI_Amount over all the loans whatever
\* their bucket, and Total_Active_Loans, the number of loans whose Status
\* holds "open", "active" or "live" in any case; each loan counts once in
\* both.
C21_AnalyticsTotals ==
    (p_pc = "analysed" /\ Truthy(p_in.v[1])) =>
        LET loans == p_in.v[2].v
        IN  /\ p_ret.t = "obj"
            /\ Get(p_ret, "Total_EMI_Obligation")
                 = JNum(SumOf([k \in DOMAIN loans |-> EmiOf(loans[k])], DOMAIN loans))
            /\ Get(p_ret, "Total_Active_Loans")
                 = Num(Cardinality({k \in DOMAIN loans : HoldsActiveWord(loans[k])}))

\* the same for the calls whose loans all name their lender
C21_TotalsWhenLendersNamed ==
    (p_pc = "analysed" /\ p_ret # Raised) => C21_AnalyticsTotals

\* ------------------------------------------------------------------------
\* Properties of the reference tables (specification MasterSpec)
\* ------------------------------------------------------------------------
\* C22: the reference data is loaded once per process: over any sequence of
\* calls of load_masters, get_location and is_employee each reference file
\* is read at most once and the tables stay what the first call left, also
\* when the first load attempt failed.
C22_MastersLoadedOnce ==
    /\ reads.pincode <= 1 /\ reads.employee <= 1
    /\ m_calls > 0 => m_first = <<pincode_cache, employee_cache>>

\* the same when no load attempt failed
C22_LoadedOnceWhenReadable ==
    (pincode_file # "broken" /\ employee_file # "broken") => C22_MastersLoadedOnce

\* the characters of a mobile number once trimmed and without a trailing
\* ".0"
TrimmedMobile ==
    (JStr("M1") :> <<"a", "1">>) @@ (JStr("M1.0") :> <<"a", "1">>)
    @@ (JStr(" M2 ") :> <<"a", "2">>) @@ (JStr("M1.05") :> <<"a", "1", ".", "0", "5">>)
    @@ (JStr("M15") :> <<"a", "1", "5">>) @@ (JStr("M3") :> <<"a", "3">>)

\* C30: is_employee(m) is true exactly when m, trimmed and without a
\* trailing ".0", is in the employee set, as the table was normalized when
\* it was loaded, and false for a missing or an empty mobile.
C30_IsEmployeeNormalizesAsLoad ==
    (m_ret.fn = "is_employee") =>
        LET in_table == /\ m_ret.arg \in DOMAIN TrimmedMobile
                        /\ TrimmedMobile[m_ret.arg] \in employee_cache
        IN  m_ret.val = in_table

\* the same for the mobiles that hold ".0" at their end only or nowhere
C30_HoldsWithoutInnerPointZero ==
    (m_ret.fn = "is_employee" /\ m_ret.arg # JStr("M1.05")) => C30_IsEmployeeNormalizesAsLoad

\* ------------------------------------------------------------------------
\* Properties of the accumulation of a row (specification Spec)
\* ------------------------------------------------------------------------
\* the records a step appends to a list
Appended(old, new) == {new[k] : k \in (Len(old) + 1)..Len(new)}

StampKeys == {"PAN", "Mobile", "Record_Date", "Source_DB"}

\* the Lead l accumulated from row carries the overrides and the metadata
LeadStampedFrom(l, row) ==
    LET extracted == parse(row.json_object, row.customer_id).lead
        expected(key, override) ==
            IF override # "" THEN Get(l, key) = JStr(override)
            ELSE /\ HasKey(l, key) = HasKey(extracted, key)
                 /\ Get(l, key) = Get(extracted, key)
    IN  /\ expected("PAN", row.db_pan)
        /\ expected("Mobile", row.db_mobile)
        /\ Get(l, "Record_Date") = JStr(row.record_date)
        /\ Get(l, "Source_DB") = JStr(DbName)

\* C23: the Lead accumulated from a row has the row's DB PAN / Mobile when
\* that override is not empty and the extracted value otherwise, the row's
\* date and the job's database name; every Loan, Enquiry and AnalyticsRow
\* accumulated from the row carries the PAN, Mobile, Record_Date and
\* Source_DB of that Lead.
C23_RowStamping ==
    [][(pc = "parse" /\ Len(batch'.leads) = Len(batch.leads) + 1) =>
        LET row == chunk[r]
            l == batch'.leads[Len(batch'.leads)]
        IN  /\ LeadStampedFrom(l, row)
            /\ \A x \in Appended(batch.loans, batch'.loans)
                        \cup Appended(batch.enqs, batch'.enqs)
                        \cup Appended(batch.analysis, batch'.analysis) :
                   \A key \in StampKeys : HasKey(x, key) /\ Get(x, key) = Get(l, key)]_vars

C23_Witness ==
    /\ pc \in {"parse", "checkpoint"}
    /\ batch.loans # <<>> /\ batch.enqs # <<>> /\ batch.analysis # <<>>
    /\ \E k \in DOMAIN batch.leads :
           /\ Get(batch.leads[k], "PAN") = JStr("DBPAN")
           /\ Get(batch.loans[1], "PAN") = JStr("DBPAN")
           /\ Get(batch.analysis[1], "Mobile") = JStr("DBMOB")

\* C24: a row whose remote fetch failed is skipped: the sentinel put in
\* its place adds no Lead, Loan, Enquiry or AnalyticsRow to the batch lists.
C24_FailedFetchIsSkipped ==
    [][(pc = "parse" /\ is_url_mode /\ IsSentinel(chunk[r].json_object))
            => batch' = batch]_vars

\* a job of one row whose fetch failed, completed with that row as a Lead
SentinelDelivered ==
    /\ is_url_mode /\ pc = "done" /\ Len(source) = 1
    /\ Len(fetched) = 1 /\ IsSentinel(fetched[1])
    /\ result.status = "Completed"
    /\ \E l \in DeliveredLeads : Get(l, "Source") = JStr("Unknown")

\* C25: a failed row count costs the progress denominator only: the loop
\* still reads page after page until the source is exhausted, so when no
\* page read fails total_fetched is the number of source rows, for a source
\* of any size.
C25_CountFailureReadsEveryRow ==
    (hist.count_failed /\ hist.pages_failed = {} /\ pc \in {"merge", "write", "done"})
        => total_fetched = Len(source)

\* the same for a source of at most one page
C25_HoldsWithinOnePage ==
    Len(source) <= BATCH_SIZE => C25_CountFailureReadsEveryRow

\* what the request for the URL of row can have come to
FetchedFor(row) ==
    {fetch_url(response, row.raw_data) : response \in Responses} \cup {JNull}

\* C26: in remote-fetch mode every row of the batch has one fetched payload,
\* the payload parsed for row r is the one its own URL was answered with,
\* whatever order the requests were answered in, and every Lead, Loan and
\* Enquiry accumulated from it carries the customer id of row r.
C26_FetchedPayloadKeepsItsRow ==
    [][(is_url_mode /\ pc = "parse") =>
        LET row == chunk[r]
        IN  /\ Len(fetched) = Len(chunk)
            /\ row.json_object = fetched[r]
            /\ fetched[r] \in FetchedFor(row)
            /\ IsSentinel(fetched[r]) => Get(fetched[r], "url") = JStr(row.raw_data)
            /\ \A x \in Appended(batch.leads, batch'.leads)
                        \cup Appended(batch.loans, batch'.loans)
                        \cup Appended(batch.enqs, batch'.enqs) :
                   Get(x, "Customer_ID") = row.customer_id]_vars

\* a batch of two rows whose URLs serve different documents, both parsed
C26_Witness ==
    /\ is_url_mode /\ pc = "checkpoint" /\ Len(chunk) = 2
    /\ chunk[1].customer_id # chunk[2].customer_id
    /\ fetched[1] = UnknownDoc /\ fetched[2] = ExperianDoc
    /\ Len(batch.leads) = 2
    /\ Get(batch.leads[1], "Customer_ID") = chunk[1].customer_id
    /\ Get(batch.leads[2], "Customer_ID") = chunk[2].customer_id
    /\ \E k \in DOMAIN batch.loans :
           Get(batch.loans[k], "Customer_ID") = chunk[2].customer_id

\* the phase a step of run_etl_job reports its progress in, and the band
\* reserved for it
Phases == {"counting", "extraction", "merge", "cleaning", "writing"}

PhaseOf(at) ==
    CASE at \in {"start", "count"} -> "counting"
      [] at = "checkpoint" -> "extraction"
      [] at = "merge" -> "merge"
      [] at = "write" -> "writing"

Band(phase) ==
    CASE phase = "counting" -> 0..10
      [] phase = "extraction" -> 10..70
      [] phase = "merge" -> 70..85
      [] phase = "cleaning" -> 85..95
      [] phase = "writing" -> 95..100

\* the values of a band that no other band shares
Inside(phase) == Band(phase) \ UNION {Band(q) : q \in Phases \ {phase}}

ReportedIn(phase) ==
    LET v == progress'[Len(progress')]
    IN  /\ v \in Band(phase)
        /\ \A q \in Phases \ {phase} : v \notin Inside(q)

\* C27: every progress value lies in the band of the phase that reports it
\* (counting 0..10, extraction 10..70, merge 70..85, cleaning 85..95,
\* writing 95..100) and inside no other phase's band.
C27_ProgressInPhaseBand ==
    [][Len(progress') = Len(progress) + 1 => ReportedIn(PhaseOf(pc))]_vars

\* every report before "Writing Excel..." is in its band
C27_HoldsBeforeWriting ==
    [][(Len(progress') = Len(progress) + 1 /\ pc # "write") => ReportedIn(PhaseOf(pc))]_vars

\* the payload has the shape _parse_experian_internal reads: the summary
\* under data.reportData.reportSummary and the grouped loans, the group
\* "personalLoans" among them, under data.reportData.creditAnalysis.loans
InternalShape(d) ==
    /\ IsDict(_get_path(d, InternalSummary))
    /\ IsDict(_get_path(d, InternalAnalysis \o <<"loans">>))
    /\ HasKey(_get_path(d, InternalAnalysis \o <<"loans">>), "personalLoans")

InternalSignature(d) == {"creditanalysis", "personalloans"} \subseteq ReprTokens(d)

\* C28: a payload that carries the internal signature ("creditanalysis" and
\* "personalloans") in the shape _parse_experian_internal reads is tagged
\* EXPERIAN_INTERNAL and its Lead comes from that extractor.
C28_InternalShapeIsDispatched ==
    (p_pc \in {"identified", "parsed"} /\ IsDict(p_in)
        /\ InternalShape(p_in) /\ InternalSignature(p_in)) =>
        /\ p_tag = "EXPERIAN_INTERNAL"
        /\ p_pc = "parsed" =>
               Get(p_out.lead, "Source") = JStr("Experian_Internal_Mapped")

\* a payload with the internal signature is tagged EXPERIAN_INTERNAL when
\* none of the three signatures tested before it occurs in it
C28_HoldsWhenNoEarlierSignature ==
    (p_pc \in {"identified", "parsed"} /\ IsDict(p_in) /\ InternalSignature(p_in)
        /\ "xmljsonresponse" \notin ReprTokens(p_in)
        /\ ~({"cibildata", "getcustomerassetsresponse"} \subseteq ReprTokens(p_in))
        /\ ~({"reportdata", "reportsummary"} \subseteq ReprTokens(p_in))) =>
        p_tag = "EXPERIAN_INTERNAL"

\* the extractor is reached, by a payload it reads no summary from
InternalReached ==
    /\ p_pc = "parsed" /\ p_in = InternalDoc
    /\ p_tag = "EXPERIAN_INTERNAL"
    /\ Get(p_out.lead, "Source") = JStr("Experian_Internal_Mapped")
    /\ Get(p_out.lead, "PAN") = JNull

\* the keyword heuristics in their order: the bucket and its keywords
Heuristics ==
    <<[bucket |-> "Home_Loans", words |-> {"housing", "home", "property", "awas"}],
      [bucket |-> "Education_Loans", words |-> {"education"}],
      [bucket |-> "Credit_Cards", words |-> {"credit card", "card"}],
      [bucket |-> "Auto_Loans", words |-> {"auto", "car", "vehicle", "tractor", "wheeler"}],
      [bucket |-> "Business_Loans", words |-> {"business", "mudra", "gecl"}],
      [bucket |-> "Personal_Loans", words |-> {"personal", "consumer"}],
      [bucket |-> "Gold_Loans", words |-> {"gold"}]>>

\* the heuristics with a keyword in key
Matching(key) ==
    {h \in DOMAIN Heuristics : \E w \in Heuristics[h].words : Contains(key, w)}

FirstHeuristic(key) ==
    IF Matching(key) = {} THEN "Other_Loans"
    ELSE Heuristics[CHOOSE h \in Matching(key) : \A g \in Matching(key) : h <= g].bucket

\* C29: the category of a raw type whose lower-cased, trimmed text is a key
\* of the mapping table is the table's entry, whatever the keywords in it
\* ("loan on credit card" is Personal_Loans, "overdraft" is Home_Loans); of
\* any other raw type it is the bucket of the first heuristic with a keyword
\* in the text, and Other_Loans when there is none or the raw type is
\* missing or empty.
C29_ExactMatchBeforeKeywords ==
    p_pc = "categorised" =>
        LET key == LowerStrip(PyStr(p_in).v)
        IN  /\ p_in \in {JNull, JStr("")} => p_ret = JStr("Other_Loans")
            /\ (Truthy(p_in) /\ key \in DOMAIN ACCOUNT_TYPE_MAP)
                   => p_ret = JStr(ACCOUNT_TYPE_MAP[key])
            /\ (Truthy(p_in) /\ key \notin DOMAIN ACCOUNT_TYPE_MAP)
                   => p_ret = JStr(FirstHeuristic(key))
            /\ p_in = JStr(" Loan on Credit Card") => p_ret = JStr("Personal_Loans")
            /\ p_in = JStr("Overdraft") => p_ret = JStr("Home_Loans")
            /\ p_in = JStr("Gold Personal") => p_ret = JStr("Personal_Loans")

\* a key of the table that holds the keyword of another bucket
C29_Witness ==
    /\ p_pc = "categorised"
    /\ p_in = JStr(" Loan on Credit Card")
    /\ Contains(LowerStrip(p_in.v), "credit card")
    /\ p_ret = JStr("Personal_Loans")

====
